---- MODULE Spec2Model ----
(***************************************************************************)
(* A model of the GPU feature detection test suite: one Playwright test    *)
(* at a time drives a page, the in-page probe queries WebGL / WebGPU, and  *)
(* the assertion layer turns the returned record into a verdict.           *)
(*                                                                         *)
(* The browser is the environment: which contexts it can create, how each  *)
(* promise it hands out settles (or never settles), and which values it    *)
(* reports are chosen nondeterministically from small sets.                *)
(***************************************************************************)
EXTENDS Integers, Sequences, FiniteSets, TLC

VARIABLES
    test,        \* the test being run, "idle" before one is started
    pc,          \* position of the test: probe, awaits, assert, done
    nav,         \* navigator: [gpu, platform, maxTouchPoints]
    adapterReq,  \* promise of navigator.gpu.requestAdapter()
    timer,       \* the setTimeout(..., 5000) of the race: none / armed / fired
    race,        \* promise of Promise.race([requestAdapter(), timeout])
    deviceReq,   \* promise of adapter.requestDevice()
    device,      \* the GPUDevice: none / alive / destroyed
    mapReq,      \* promise of stagingBuffer.mapAsync(GPUMapMode.READ)
    output,      \* |expected - actual| per index of the compute result
    glSupport,   \* the WebGL context types the browser can create
    canvasCtx,   \* the context type the page's canvas is bound to, or "none"
    page,        \* what the page's own script left behind: flags, results, error
    result,      \* the record page.evaluate returned to the driver
    verdict,     \* none / pass / fail
    launch,      \* the configuration the runner loaded: platform, file, args
    doc,         \* the document of the chrome://gpu page the test navigated to
    probeRuns    \* the reports of the capability probe run again on one canvas

gpuVars == <<adapterReq, timer, race, deviceReq, device, mapReq, output>>
glVars == <<glSupport, canvasCtx, page>>
runnerVars == <<launch, doc, probeRuns>>
vars == <<test, pc, nav, gpuVars, glVars, result, verdict, runnerVars>>

(***************************************************************************)
(* Bounds and program constants                                            *)
(***************************************************************************)
\* at most this many elements of the compute output deviate from the sum
MaxWrong == 2
\* at most this many nodes below the body of a chrome://gpu document
MaxNodes == 3
\* the capability probe is run at most this many times on one canvas
MaxRuns == 2
MaxWidgets == 2

\* ARRAY_SIZE of the compute test
ARRAY_SIZE == 1000
\* the number of leading elements the compute probe verifies: Math.min(5, ARRAY_SIZE)
SampleLimit == 5
\* the tolerance 0.0001 of the compute verification, in units of 0.00001
Tolerance == 10
\* expect(webgpuInfo.limits.maxTextureDimension2D).toBeGreaterThan(4096)
MinTextureDimension2D == 4096

Min(a, b) == IF a < b THEN a ELSE b

(***************************************************************************)
(* The WebGPU tests                                                        *)
(***************************************************************************)
\* 'should check WebGPU adapter capabilities', the variant with the 5000 ms race
Caps5000 == "caps5000"
\* 'should check WebGPU adapter capabilities', the variant that awaits the adapter
CapsPlain == "capsPlain"
\* 'should detect WebGPU support'
Detect == "detect"
\* 'should perform basic WebGPU compute operation'
Compute == "compute"

GPUTests == {Caps5000, CapsPlain, Detect, Compute}

\* navigator.platform, a string as the sequence of its words
Platforms == {<<"Linux", "x86_64">>, <<"MacIntel">>, <<"Win32">>}
UserAgent == "Mozilla/5.0 Chrome"

\* messages of the errors the browser rejects a request with
ErrMsgs == {"", "OperationError"}
\* adapter.limits.maxTextureDimension2D as the browser reports it
TextureDims == {4096, 8192}

\* adapter.info.vendor as the browser reports it; it may be empty
AdapterVendors == {"", "nvidia"}

NoOutcome == [kind |-> "none", dim2D |-> 0, vendor |-> "", msg |-> ""]
AdapterOutcomes ==
    {[kind |-> "adapter", dim2D |-> d, vendor |-> v, msg |-> ""] :
        d \in TextureDims, v \in AdapterVendors}
    \cup {[NoOutcome EXCEPT !.kind = "null"]}
    \cup {[NoOutcome EXCEPT !.kind = "error", !.msg = m] : m \in ErrMsgs}
DeviceOutcomes ==
    {[NoOutcome EXCEPT !.kind = "device"]}
    \cup {[NoOutcome EXCEPT !.kind = "error", !.msg = m] : m \in ErrMsgs}
\* reject(new Error('Timeout'))
TimeoutOutcome == [NoOutcome EXCEPT !.kind = "error", !.msg = "Timeout"]

NoPromise == [st |-> "none", out |-> NoOutcome]
\* a request the browser will answer, and one it never answers
Pending == [st |-> "pending", out |-> NoOutcome]
Never == [st |-> "never", out |-> NoOutcome]
Settled(o) == [st |-> "settled", out |-> o]

NoRace == [st |-> "none", by |-> "none", out |-> NoOutcome]
PendingRace == [st |-> "pending", by |-> "none", out |-> NoOutcome]

\* a mutant: the race takes every settlement, the last one wins
RaceSettleLastWins(r, who, o) ==
    IF r.st = "none" THEN r ELSE [st |-> "settled", by |-> who, out |-> o]

\* Promise.race: the first input to settle decides it, later ones are ignored
RaceSettle(r, who, o) ==
    IF r.st = "pending" THEN [st |-> "settled", by |-> who, out |-> o] ELSE r

\* the indices of the output the environment may corrupt: the first and the
\* last verified one, the first unverified one and the last of the array
Idx == {0, SampleLimit - 1, SampleLimit, ARRAY_SIZE - 1}
Deviations == {0, Tolerance - 1, Tolerance}
ExactOutput == [i \in Idx |-> 0]
Outputs ==
    {o \in [Idx -> Deviations] : Cardinality({i \in Idx : o[i] # 0}) <= MaxWrong}

NoResult == [none |-> TRUE]
\* a WebGPU probe has returned its record to the driver
Returned == test \in GPUTests /\ "supported" \in DOMAIN result

(***************************************************************************)
(* The records the probes return                                           *)
(***************************************************************************)
\* if (!navigator.gpu) return { supported: false, reason: ... }
NoGpuRecord(t) ==
    CASE t = Caps5000 ->
           [supported |-> FALSE, reason |-> "navigator.gpu not available",
            userAgent |-> UserAgent, platform |-> nav.platform]
      [] t = CapsPlain ->
           [supported |-> FALSE, reason |-> "navigator.gpu not available"]
      [] OTHER -> [supported |-> FALSE, error |-> "WebGPU not available"]

\* a mutant: the null-adapter exit copies the record of the exit before it
NoAdapterRecordCopied(t) == NoGpuRecord(t)

\* if (!adapter) return { supported: false, reason: 'No adapter available' }
NoAdapterRecord(t) ==
    CASE t = Caps5000 ->
           [supported |-> FALSE, reason |-> "No adapter available",
            userAgent |-> UserAgent, platform |-> nav.platform]
      [] t = CapsPlain -> [supported |-> FALSE, reason |-> "No adapter available"]
      [] t = Detect -> [supported |-> FALSE, error |-> "No WebGPU adapter found"]
      [] OTHER -> [supported |-> FALSE, error |-> "No adapter"]

\* catch (error) { return { supported: false, reason: error.message } }
CaughtRecord(t, m) ==
    CASE t = Caps5000 ->
           [supported |-> FALSE, reason |-> m,
            userAgent |-> UserAgent, platform |-> nav.platform]
      [] t = CapsPlain -> [supported |-> FALSE, reason |-> m]
      [] OTHER -> [supported |-> FALSE, error |-> m]

\* the capabilities record; deviceInfo is <<>> for null
CapabilitiesRecord(t, adapter, deviceInfo) ==
    IF t = Caps5000
    THEN [supported |-> TRUE, limits |-> [maxTextureDimension2D |-> adapter.dim2D],
          device |-> deviceInfo, userAgent |-> UserAgent, platform |-> nav.platform]
    ELSE [supported |-> TRUE, limits |-> [maxTextureDimension2D |-> adapter.dim2D]]

\* vendor: adapter.info?.vendor || 'Unknown'
DetectRecord(adapter) ==
    [supported |-> TRUE,
     adapterInfo |-> [vendor |-> IF adapter.vendor = "" THEN "Unknown" ELSE adapter.vendor],
     limits |-> [maxTextureDimension2D |-> adapter.dim2D]]

\* a mutant: the verification stops one element early
VerifiedIdxShort == 0 .. (Min(SampleLimit, ARRAY_SIZE) - 2)

\* for (let i = 0; i < Math.min(5, ARRAY_SIZE); i++)
VerifiedIdx == 0 .. (Min(SampleLimit, ARRAY_SIZE) - 1)

\* match: Math.abs((input1[i] + input2[i]) - result[i]) < 0.0001
Match(o, i) == IF i \in Idx THEN o[i] < Tolerance ELSE TRUE

ComputeRecord(o) ==
    [supported |-> TRUE, arraySize |-> ARRAY_SIZE,
     allMatch |-> \A i \in VerifiedIdx : Match(o, i)]

(***************************************************************************)
(* The assertion layer of the WebGPU tests                                 *)
(***************************************************************************)
PassIf(b) == IF b THEN "pass" ELSE "fail"

\* if (supported) { expect(limits).toBeTruthy(); if (device) expect(device.queue).toBe(true) }
\* else expect(supported).toBe(false)
Caps5000Verdict(r) ==
    IF r.supported
    THEN PassIf(r.device # <<>> => r.device[1].queue)
    ELSE PassIf(r.supported = FALSE)

\* if (supported) { expect(supported).toBe(true); expect(limits).toBeTruthy() } else log
CapsPlainVerdict(r) == "pass"

\* if (supported) { maxTextureDimension2D > 4096; vendor truthy } else log
DetectVerdict(r) ==
    IF r.supported
    THEN PassIf(r.limits.maxTextureDimension2D > MinTextureDimension2D
                /\ r.adapterInfo.vendor # "")
    ELSE "pass"

\* if (supported) { allMatch is true; arraySize is 1000 } else log
ComputeVerdict(r) ==
    IF r.supported THEN PassIf(r.allMatch /\ r.arraySize = ARRAY_SIZE) ELSE "pass"

\* a mutant: the tests require WebGPU
WebGPUVerdictRequired(t, r) ==
    IF ~r.supported THEN "fail"
    ELSE CASE t = Caps5000 -> Caps5000Verdict(r)
           [] t = CapsPlain -> CapsPlainVerdict(r)
           [] t = Detect -> DetectVerdict(r)
           [] OTHER -> ComputeVerdict(r)

WebGPUVerdict(t, r) ==
    CASE t = Caps5000 -> Caps5000Verdict(r)
      [] t = CapsPlain -> CapsPlainVerdict(r)
      [] t = Detect -> DetectVerdict(r)
      [] OTHER -> ComputeVerdict(r)

(***************************************************************************)
(* The WebGPU probes, one action per synchronous stretch of the probe      *)
(***************************************************************************)
\* the probe whose adapter request is wrapped in Promise.race with a timer
UsesRace(t) == t = Caps5000

\* the probe that asks the adapter for nothing more
NoDevice(t) == t = CapsPlain

\* the probe that calls device.destroy() once it has read the device
DestroysDevice(t) == t = Caps5000

\* from the probe's entry to its first await
ProbeEntry ==
    /\ pc = "probe" /\ test \in GPUTests
    /\ IF ~nav.gpu
       THEN /\ result' = NoGpuRecord(test)
            /\ pc' = "assert"
            /\ UNCHANGED <<adapterReq, timer, race>>
       ELSE /\ adapterReq' \in {Pending, Never}
            /\ IF UsesRace(test)
               THEN timer' = "armed" /\ race' = PendingRace
               ELSE UNCHANGED <<timer, race>>
            /\ pc' = "awaitAdapter"
            /\ UNCHANGED result
    /\ UNCHANGED <<test, nav, deviceReq, device, mapReq, output, verdict>>
    /\ UNCHANGED glVars
    /\ UNCHANGED runnerVars

\* the browser answers requestAdapter()
requestAdapterSettles ==
    /\ adapterReq.st = "pending"
    /\ \E o \in AdapterOutcomes :
         /\ adapterReq' = Settled(o)
         /\ race' = RaceSettle(race, "adapter", o)
    /\ UNCHANGED <<test, pc, nav, timer, deviceReq, device, mapReq, output, result, verdict>>
    /\ UNCHANGED glVars
    /\ UNCHANGED runnerVars

\* the timer of the race runs out: reject(new Error('Timeout'))
TimerFires ==
    /\ timer = "armed"
    /\ timer' = "fired"
    /\ race' = RaceSettle(race, "timer", TimeoutOutcome)
    /\ UNCHANGED <<test, pc, nav, adapterReq, deviceReq, device, mapReq, output, result, verdict>>
    /\ UNCHANGED glVars
    /\ UNCHANGED runnerVars

\* what `await` on the adapter waits for
Awaited == IF race.st # "none" THEN [st |-> race.st, out |-> race.out] ELSE adapterReq

\* the probe resumes after the adapter await
AfterAdapter ==
    /\ pc = "awaitAdapter" /\ Awaited.st = "settled"
    /\ LET o == Awaited.out IN
         CASE o.kind = "error" ->
                /\ result' = CaughtRecord(test, o.msg)
                /\ pc' = "assert"
                /\ UNCHANGED deviceReq
           [] o.kind = "null" ->
                /\ result' = NoAdapterRecord(test)
                /\ pc' = "assert"
                /\ UNCHANGED deviceReq
           [] OTHER ->
                IF NoDevice(test)
                THEN /\ result' = CapabilitiesRecord(test, o, <<>>)
                     /\ pc' = "assert"
                     /\ UNCHANGED deviceReq
                ELSE /\ deviceReq' \in {Pending, Never}
                     /\ pc' = "awaitDevice"
                     /\ UNCHANGED result
    /\ UNCHANGED <<test, nav, adapterReq, timer, race, device, mapReq, output, verdict>>
    /\ UNCHANGED glVars
    /\ UNCHANGED runnerVars

\* the browser answers adapter.requestDevice()
requestDeviceSettles ==
    /\ deviceReq.st = "pending"
    /\ \E o \in DeviceOutcomes :
         /\ deviceReq' = Settled(o)
         /\ device' = IF o.kind = "device" THEN "alive" ELSE device
    /\ UNCHANGED <<test, pc, nav, adapterReq, timer, race, mapReq, output, result, verdict>>
    /\ UNCHANGED glVars
    /\ UNCHANGED runnerVars

\* the probe resumes after the device await
AfterDevice ==
    /\ pc = "awaitDevice" /\ deviceReq.st = "settled"
    /\ LET o == deviceReq.out
           adapter == Awaited.out
       IN
         CASE test = Caps5000 ->
                \* the inner try/catch: a failed device request leaves deviceInfo null
                /\ result' = CapabilitiesRecord(test, adapter,
                                IF o.kind = "device"
                                THEN <<[label |-> "", queue |-> TRUE]>> ELSE <<>>)
                /\ device' = IF o.kind = "device" /\ DestroysDevice(test)
                             THEN "destroyed" ELSE device
                /\ pc' = "assert"
                /\ UNCHANGED mapReq
           [] test = Detect ->
                /\ result' = IF o.kind = "device" THEN DetectRecord(adapter)
                             ELSE CaughtRecord(test, o.msg)
                /\ pc' = "assert"
                /\ UNCHANGED <<device, mapReq>>
           [] OTHER ->
                \* compute: build the pipeline, submit, then await mapAsync
                IF o.kind = "device"
                THEN /\ mapReq' \in {Pending, Never}
                     /\ pc' = "awaitMap"
                     /\ UNCHANGED <<result, device>>
                ELSE /\ result' = CaughtRecord(test, o.msg)
                     /\ pc' = "assert"
                     /\ UNCHANGED <<device, mapReq>>
    /\ UNCHANGED <<test, nav, adapterReq, timer, race, deviceReq, output, verdict>>
    /\ UNCHANGED glVars
    /\ UNCHANGED runnerVars

\* the GPU finishes the submitted work and the staging buffer maps, or fails to
mapAsyncSettles ==
    /\ mapReq.st = "pending"
    /\ \/ \E o \in Outputs :
            /\ output' = o
            /\ mapReq' = Settled([NoOutcome EXCEPT !.kind = "mapped"])
       \/ \E m \in ErrMsgs :
            /\ mapReq' = Settled([NoOutcome EXCEPT !.kind = "error", !.msg = m])
            /\ UNCHANGED output
    /\ UNCHANGED <<test, pc, nav, adapterReq, timer, race, deviceReq, device, result, verdict>>
    /\ UNCHANGED glVars
    /\ UNCHANGED runnerVars

\* the compute probe reads the result back and verifies it
AfterMap ==
    /\ pc = "awaitMap" /\ mapReq.st = "settled"
    /\ result' = IF mapReq.out.kind = "mapped" THEN ComputeRecord(output)
                 ELSE CaughtRecord(test, mapReq.out.msg)
    /\ pc' = "assert"
    /\ UNCHANGED <<test, nav, gpuVars, verdict>>
    /\ UNCHANGED glVars
    /\ UNCHANGED runnerVars

\* the driver's assertions on the returned record
AssertWebGPU ==
    /\ pc = "assert" /\ test \in GPUTests
    /\ verdict' = WebGPUVerdict(test, result)
    /\ pc' = "done"
    /\ UNCHANGED <<test, nav, gpuVars, result>>
    /\ UNCHANGED glVars
    /\ UNCHANGED runnerVars

(***************************************************************************)
(* Strings: a string is the sequence of its words, toLowerCase maps each   *)
(* word, includes looks for a word or for a listed part of a word          *)
(***************************************************************************)
Lower(w) ==
    CASE w = "NVIDIA" -> "nvidia" [] w = "AMD" -> "amd" [] w = "Radeon" -> "radeon"
      [] w = "Intel" -> "intel" [] w = "Apple" -> "apple" [] w = "M1" -> "m1"
      [] w = "ANGLE" -> "angle" [] w = "Vulkan" -> "vulkan" [] w = "Mesa" -> "mesa"
      [] w = "OpenGL" -> "opengl" [] w = "SwiftShader" -> "swiftshader"
      [] w = "Google" -> "google" [] w = "WebKit" -> "webkit" [] w = "WebGL" -> "webgl"
      [] w = "Linux" -> "linux" [] w = "MacIntel" -> "macintel" [] w = "Win32" -> "win32"
      [] w = "Corporation" -> "corporation" [] w = "Inc." -> "inc."
      [] w = "GPU" -> "gpu" [] w = "GPU process" -> "gpu process"
      [] w = "Canvas" -> "canvas" [] w = "Rasterization" -> "rasterization"
      [] w = "Hardware accelerated" -> "hardware accelerated"
      [] w = "Software only" -> "software only"
      [] w = "WebGPU" -> "webgpu" [] w = "Disabled" -> "disabled"
      [] w = "Metal" -> "metal" [] w = "Renderer" -> "renderer"
      [] w = "Unspecified Version" -> "unspecified version"
      [] OTHER -> w

toLowerCase(s) == [i \in DOMAIN s |-> Lower(s[i])]

\* the words that contain another word of the vocabulary as a proper substring
Substrings ==
    {<<"macintel", "mac">>, <<"macintel", "intel">>,
     <<"Hardware accelerated", "Hardware">>, <<"Software only", "Software">>,
     <<"GPU process", "GPU">>, <<"=>", "=">>,
     <<"hardware accelerated", "hardware">>, <<"software only", "software">>,
     <<"gpu process", "gpu">>,
     <<"WebGPU", "GPU">>, <<"webgpu", "gpu">>}

includes(s, kw) == \E i \in DOMAIN s : s[i] = kw \/ <<s[i], kw>> \in Substrings

\* /a|b|c/i.test(s)
MatchesAny(s, kws) == \E kw \in kws : includes(toLowerCase(s), kw)

\* [a, b, ...].filter(Boolean).join(' ')
RECURSIVE JoinTruthy(_)
JoinTruthy(ss) == IF ss = <<>> THEN <<>> ELSE Head(ss) \o JoinTruthy(Tail(ss))

(***************************************************************************)
(* The WebGL tests                                                         *)
(***************************************************************************)
\* 'should detect all available GPU features', with the platform thresholds
FeatureDetect == "featureDetect"
\* 'should detect all available GPU features', the G5 variant
FeatureDetectG5 == "featureDetectG5"
\* 'should perform basic GPU performance check'
PerfCheck == "perfCheck"
\* 'should verify GPU acceleration status', the WebGL variant
AccelStatus == "accelStatus"
\* 'should detect NVIDIA GPU on G5 instance', the WebGL variant
NvidiaDetect == "nvidiaDetect"
\* 'should detect Vulkan support through WebGL'
VulkanDetect == "vulkanDetect"
\* 'should perform high-performance WebGL operations with Vulkan backend'
HighPerf == "highPerf"
\* 'should take a snapshot of GPU information', the synthetic page
Snapshot == "snapshot"

\* the tests whose probe is one page.evaluate
EvalGLTests ==
    {FeatureDetect, FeatureDetectG5, PerfCheck, AccelStatus, NvidiaDetect, VulkanDetect}
\* the tests whose probe is a script of the page they load
PageGLTests == {HighPerf, Snapshot}
GLTests == EvalGLTests \cup PageGLTests

ContextTypes == {"webgl", "webgl2"}

\* what WEBGL_debug_renderer_info unmasks; <<>> when the extension is missing
DebugInfos ==
    {<<>>,
     <<[vendor |-> <<"NVIDIA", "Corporation">>, renderer |-> <<"ANGLE", "NVIDIA", "Vulkan">>]>>,
     <<[vendor |-> <<"AMD">>, renderer |-> <<"AMD", "Radeon">>]>>,
     <<[vendor |-> <<"Intel">>, renderer |-> <<"Mesa", "Intel">>]>>,
     <<[vendor |-> <<"Apple", "Inc.">>, renderer |-> <<"Apple", "M1">>]>>,
     <<[vendor |-> <<"Apple", "Inc.">>, renderer |-> <<"ANGLE", "Apple", "Intel">>]>>,
     <<[vendor |-> <<"Google", "Inc.">>, renderer |-> <<"ANGLE", "Google", "SwiftShader">>]>>,
     <<[vendor |-> <<"Mesa">>, renderer |-> <<"llvmpipe">>]>>}

\* the values a context reports
GLValues ==
    [maxTextureSize : {2048, 4096, 5000, 8192, 16384},
     extensions : {5, 11, 21},
     maxCombinedTextureImageUnits : {16, 32},
     debugInfo : DebugInfos]
GL2Limits ==
    {[maxColorAttachments |-> 8, max3DTextureSize |-> 2048, maxArrayTextureLayers |-> 2048],
     [maxColorAttachments |-> 3, max3DTextureSize |-> 128, maxArrayTextureLayers |-> 128]}
\* gl.getParameter(gl.VENDOR) and gl.getParameter(gl.RENDERER)
MaskedVendor == <<"WebKit">>
MaskedRenderer == <<"WebKit", "WebGL">>
\* performance.now() differences, in ms
DrawTimes == {5, 999, 1000, 20000}
TotalTimes == {100, 4999, 5000, 10000}

\* canvas.getContext(type): the context returned, "null" for none; a canvas
\* bound to one context type answers null to a request for another
Got(ctx, type, support) ==
    IF ctx = "none" THEN (IF type \in support THEN type ELSE "null")
    ELSE IF ctx = type THEN type ELSE "null"
\* a mutant: a request binds the canvas even when it creates no context
BoundByRequest(ctx, type, support) == IF ctx = "none" THEN type ELSE ctx

\* and the context type the canvas is bound to afterwards
Bound(ctx, type, support) ==
    IF ctx = "none" /\ type \in support THEN type ELSE ctx

\* canvas.getContext('webgl2') || canvas.getContext('webgl')
GetEither(ctx, support) ==
    LET g2 == Got(ctx, "webgl2", support)
        c2 == Bound(ctx, "webgl2", support)
    IN IF g2 # "null" THEN [gl |-> g2, canvas |-> c2]
       ELSE [gl |-> Got(c2, "webgl", support), canvas |-> Bound(c2, "webgl", support)]

\* canvas.getContext('webgl')
GetWebGL(ctx, support) ==
    [gl |-> Got(ctx, "webgl", support), canvas |-> Bound(ctx, "webgl", support)]

\* a mutant: the webgl flag is true of a WebGL 1 context only
WebglFlagV1Only(gl) == gl = "webgl"

\* webgl: true, on the path where gl is a context
WebglFlag(gl) == gl # "null"

\* webgl2: !!canvas.getContext('webgl2'), asked of the canvas gl came from
Webgl2Flag(canvas, support) == Got(canvas, "webgl2", support) # "null"

\* navigator.platform === 'MacIntel' && navigator.maxTouchPoints > 0
IsAppleSilicon(n) == n.platform = <<"MacIntel">> /\ n.maxTouchPoints > 0

\* the CapabilityReport of 'should detect all available GPU features'; the G5
\* variant reports neither the platform nor the combined texture units
FeatureRecord(t, got, n, v, l2, support) ==
    IF got.gl = "null" THEN [webgl |-> FALSE]
    ELSE IF t = FeatureDetectG5
    THEN [webgl |-> WebglFlag(got.gl),
          webgl2 |-> Webgl2Flag(got.canvas, support),
          webgpu |-> n.gpu,
          extensions |-> v.extensions,
          limits |-> [maxTextureSize |-> v.maxTextureSize],
          webgl2Limits |-> IF Webgl2Flag(got.canvas, support) THEN <<l2>> ELSE <<>>,
          renderer |-> v.debugInfo]
    ELSE [webgl |-> WebglFlag(got.gl),
          webgl2 |-> Webgl2Flag(got.canvas, support),
          webgpu |-> n.gpu,
          platform |-> n.platform,
          isAppleSilicon |-> IsAppleSilicon(n),
          extensions |-> v.extensions,
          limits |-> [maxTextureSize |-> v.maxTextureSize,
                      maxCombinedTextureImageUnits |-> v.maxCombinedTextureImageUnits],
          webgl2Limits |-> IF Webgl2Flag(got.canvas, support) THEN <<l2>> ELSE <<>>,
          renderer |-> v.debugInfo]

\* Math.round(1000 / ((end - start) / 1000))
TrianglesPerSecond(dt) == (2000000 + dt) \div (2 * dt)

PerfRecord(got, dt) ==
    IF got.gl = "null" THEN [error |-> "No WebGL context"]
    ELSE [drawTime |-> dt, trianglesPerSecond |-> TrianglesPerSecond(dt)]

AccelRecord(got, v) ==
    IF got.gl = "null" THEN [hasWebGL |-> FALSE]
    ELSE [hasWebGL |-> TRUE, vendor |-> MaskedVendor, renderer |-> MaskedRenderer,
          unmaskedRenderer |-> IF v.debugInfo = <<>> THEN <<>> ELSE v.debugInfo[1].renderer,
          maxTextureSize |-> v.maxTextureSize, extensions |-> v.extensions]

NvidiaRecord(got, v) ==
    IF got.gl = "null" THEN [webgl |-> FALSE]
    ELSE [webgl |-> TRUE, vendor |-> MaskedVendor, renderer |-> MaskedRenderer,
          unmaskedVendor |-> IF v.debugInfo = <<>> THEN <<>> ELSE v.debugInfo[1].vendor,
          unmaskedRenderer |-> IF v.debugInfo = <<>> THEN <<>> ELSE v.debugInfo[1].renderer,
          maxTextureSize |-> v.maxTextureSize, extensions |-> v.extensions]

VulkanRecord(got, v) ==
    IF got.gl = "null" THEN [supported |-> FALSE]
    ELSE LET renderer == IF v.debugInfo = <<>> THEN MaskedRenderer
                         ELSE v.debugInfo[1].renderer
         IN [supported |-> TRUE, renderer |-> renderer,
             isVulkanBackend |-> includes(toLowerCase(renderer), "vulkan")
                                 \/ includes(toLowerCase(renderer), "angle")]

\* what the probe of test t returns and the canvas it leaves
EvalProbe(t, ctx, support, n, v, l2, dt) ==
    LET either == GetEither(ctx, support)
        v1 == GetWebGL(ctx, support)
    IN CASE t \in {FeatureDetect, FeatureDetectG5} ->
              [canvas |-> either.canvas, rec |-> FeatureRecord(t, either, n, v, l2, support)]
         [] t = PerfCheck -> [canvas |-> either.canvas, rec |-> PerfRecord(either, dt)]
         [] t = AccelStatus -> [canvas |-> v1.canvas, rec |-> AccelRecord(v1, v)]
         [] t = NvidiaDetect -> [canvas |-> v1.canvas, rec |-> NvidiaRecord(v1, v)]
         [] OTHER -> [canvas |-> either.canvas, rec |-> VulkanRecord(either, v)]

(***************************************************************************)
(* The assertion layer of the WebGL tests                                  *)
(***************************************************************************)
\* the platform-specific expectations of the feature detection test
PlatformOk(r) ==
    LET platform == toLowerCase(r.platform) IN
    IF includes(platform, "linux") THEN r.limits.maxTextureSize >= 4096
    ELSE IF includes(platform, "mac") \/ platform = <<"macintel">>
    THEN IF r.isAppleSilicon
         THEN /\ r.limits.maxTextureSize >= 16384
              /\ r.webgl2
              /\ r.limits.maxCombinedTextureImageUnits >= 32
         ELSE r.limits.maxTextureSize >= 8192
    ELSE TRUE

\* a mutant: the renderer string chooses no expectation
VendorOkSkipped(r) == TRUE

\* the expectations chosen by the renderer string
VendorOk(r) ==
    IF r.renderer = <<>> THEN TRUE
    ELSE LET renderer == toLowerCase(r.renderer[1].renderer) IN
         IF includes(renderer, "nvidia") THEN r.limits.maxTextureSize >= 8192
         ELSE IF includes(renderer, "amd") \/ includes(renderer, "radeon")
         THEN r.limits.maxTextureSize >= 4096
         ELSE IF includes(renderer, "intel") THEN r.limits.maxTextureSize >= 2048
         ELSE IF \/ includes(renderer, "apple") \/ includes(renderer, "m1")
                 \/ includes(renderer, "m2") \/ includes(renderer, "m3")
         THEN r.limits.maxTextureSize >= 16384 /\ r.webgl2
         ELSE TRUE

Webgl2Ok(r) ==
    r.webgl2 =>
        /\ r.webgl2Limits[1].maxColorAttachments >= 4
        /\ r.webgl2Limits[1].max3DTextureSize >= 256
        /\ r.webgl2Limits[1].maxArrayTextureLayers >= 256

FeatureDetectVerdict(r) ==
    IF ~r.webgl THEN "fail"
    ELSE PassIf(/\ r.limits.maxTextureSize >= 2048
                /\ r.extensions > 5
                /\ PlatformOk(r)
                /\ VendorOk(r)
                /\ Webgl2Ok(r))

NvidiaWords == {"nvidia", "geforce", "tesla", "quadro"}

FeatureDetectG5Verdict(r) ==
    IF ~r.webgl THEN "fail"
    ELSE PassIf(/\ r.limits.maxTextureSize >= 4096
                /\ r.extensions > 10
                /\ (r.renderer # <<>> => MatchesAny(r.renderer[1].renderer, NvidiaWords))
                /\ (r.webgl2 => /\ r.webgl2Limits[1].maxColorAttachments >= 4
                                /\ r.webgl2Limits[1].max3DTextureSize >= 256))

\* if (!performanceResult.error) { drawTime < 1000; trianglesPerSecond > 100 }
PerfCheckVerdict(r) ==
    IF "error" \in DOMAIN r THEN "pass"
    ELSE PassIf(r.drawTime < 1000 /\ r.trianglesPerSecond > 100)

SoftwareWords == {"swiftshader", "software", "llvmpipe"}

AccelStatusVerdict(r) ==
    IF ~r.hasWebGL THEN "fail"
    ELSE LET rendererInfo == IF r.unmaskedRenderer # <<>> THEN r.unmaskedRenderer
                             ELSE r.renderer
         IN PassIf(/\ r.maxTextureSize >= 4096
                   /\ r.extensions > 10
                   /\ ~MatchesAny(rendererInfo, SoftwareWords)
                   /\ r.maxTextureSize >= 8192)

\* /SwiftShader|Software Rasterizer/i
MatchesPureSoftware(s) ==
    LET l == toLowerCase(s) IN
    \/ includes(l, "swiftshader")
    \/ \E i \in DOMAIN l : l[i] = "software" /\ i + 1 \in DOMAIN l /\ l[i + 1] = "rasterizer"

NvidiaDetectVerdict(r) ==
    IF ~r.webgl THEN "fail"
    ELSE LET allRendererInfo ==
                 JoinTruthy(<<r.vendor, r.renderer, r.unmaskedVendor, r.unmaskedRenderer>>)
         IN PassIf(/\ \/ MatchesAny(allRendererInfo, NvidiaWords)
                      \/ /\ r.maxTextureSize >= 8192
                         /\ r.extensions > 20
                         /\ ~MatchesPureSoftware(allRendererInfo)
                   /\ MatchesAny(allRendererInfo, {"opengl", "vulkan", "angle", "mesa"}))

VulkanDetectVerdict(r) ==
    IF ~r.supported THEN "fail" ELSE PassIf(r.renderer # <<>>)

\* drawCalls is 10000; totalTime < 5000; averageTimePerDraw < 1
HighPerfVerdict(r) ==
    PassIf(r.drawCalls = 10000 /\ r.totalTime < 5000 /\ r.totalTime < r.drawCalls)

\* the body text matches /WebGL|GPU|Vendor|Renderer/i and not /Loading\.\.\./
SnapshotVerdict(text) ==
    PassIf(/\ MatchesAny(text, {"webgl", "gpu", "vendor", "renderer"})
           /\ ~includes(text, "Loading..."))

GLVerdict(t, r) ==
    CASE t = FeatureDetect -> FeatureDetectVerdict(r)
      [] t = FeatureDetectG5 -> FeatureDetectG5Verdict(r)
      [] t = PerfCheck -> PerfCheckVerdict(r)
      [] t = AccelStatus -> AccelStatusVerdict(r)
      [] t = NvidiaDetect -> NvidiaDetectVerdict(r)
      [] t = VulkanDetect -> VulkanDetectVerdict(r)
      [] t = HighPerf -> HighPerfVerdict(r)
      [] OTHER -> SnapshotVerdict(r)

(***************************************************************************)
(* The WebGL probes                                                        *)
(***************************************************************************)
FreshPage ==
    [threw |-> FALSE, gpuTestComplete |-> FALSE, vulkanTestComplete |-> FALSE,
     vulkanPerformance |-> <<>>, results |-> <<"Loading...">>]

\* the values the probe of test t reads; what it does not read stays at the
\* first value, it cannot change the run
ValuesRead(t) ==
    {v \in GLValues :
        /\ t # FeatureDetect => v.maxCombinedTextureImageUnits = 16
        /\ t = PerfCheck =>
              v.maxTextureSize = 2048 /\ v.extensions = 5 /\ v.debugInfo = <<>>
        /\ t = VulkanDetect => v.maxTextureSize = 2048 /\ v.extensions = 5}

\* page.evaluate of the probe: synchronous, one step
EvalGLProbe ==
    /\ pc = "probe" /\ test \in EvalGLTests
    /\ \E v \in ValuesRead(test), l2 \in GL2Limits, dt \in DrawTimes :
         LET p == EvalProbe(test, canvasCtx, glSupport, nav, v, l2, dt) IN
         /\ result' = p.rec
         /\ canvasCtx' = p.canvas
    /\ pc' = "assert"
    /\ UNCHANGED <<test, nav, gpuVars, glSupport, page, verdict>>
    /\ UNCHANGED runnerVars

\* the script of the draw-call page, run to completion while the page loads:
\* without a WebGL2 context it throws before it sets anything
HighPerfScript(ctx, support, total) ==
    LET gl == Got(ctx, "webgl2", support) IN
    [canvas |-> Bound(ctx, "webgl2", support),
     page |-> IF gl = "null"
              THEN [FreshPage EXCEPT !.threw = TRUE]
              ELSE [FreshPage EXCEPT
                      !.vulkanPerformance = <<[drawCalls |-> 10000, totalTime |-> total]>>,
                      !.vulkanTestComplete = TRUE]]

\* a snapshot script that raises the flag and leaves the results element alone
SnapshotScriptFlagOnly(ctx, support, n) ==
    [canvas |-> IF ctx # "none" THEN ctx
                ELSE IF "webgl" \in support THEN "webgl"
                ELSE IF "webgl2" \in support THEN "webgl2" ELSE "none",
     page |-> [FreshPage EXCEPT !.gpuTestComplete = TRUE]]

\* the script of the snapshot page: both contexts are asked of the same canvas,
\* every section is appended inside one try, then the results are replaced and
\* the flag is set
SnapshotScript(ctx, support, n) ==
    LET gl == Got(ctx, "webgl", support)
        c1 == Bound(ctx, "webgl", support)
        gl2 == Got(c1, "webgl2", support)
        c2 == Bound(c1, "webgl2", support)
    IN [canvas |-> c2,
        page |-> [FreshPage EXCEPT
                    !.results =
                        (IF gl # "null" THEN <<"WebGL", "Supported", "Vendor", "Renderer">>
                         ELSE <<"WebGL", "Not", "Supported">>)
                        \o (IF gl2 # "null" THEN <<"WebGL", "2.0", "Supported">>
                            ELSE <<"WebGL", "2.0", "Not", "Supported">>)
                        \o (IF n.gpu THEN <<"WebGPU", "Available">> ELSE <<>>),
                    !.gpuTestComplete = TRUE]]

\* page.setContent: the page's script runs
PageScript ==
    /\ pc = "probe" /\ test \in PageGLTests
    /\ \E total \in TotalTimes :
         LET p == IF test = HighPerf THEN HighPerfScript(canvasCtx, glSupport, total)
                  ELSE SnapshotScript(canvasCtx, glSupport, nav)
         IN page' = p.page /\ canvasCtx' = p.canvas
    /\ pc' = "waitFlag"
    /\ UNCHANGED <<test, nav, gpuVars, glSupport, result, verdict>>
    /\ UNCHANGED runnerVars

\* the flag page.waitForFunction polls
CompletionFlag == IF test = HighPerf THEN page.vulkanTestComplete ELSE page.gpuTestComplete

\* page.waitForFunction sees the flag; the driver reads what it asserts on
WaitForFunction ==
    /\ pc = "waitFlag" /\ CompletionFlag
    /\ result' = IF test = HighPerf THEN page.vulkanPerformance[1]
                 ELSE <<"GPU", "Acceleration", "Test", "Results">> \o page.results
    /\ pc' = "assert"
    /\ UNCHANGED <<test, nav, gpuVars, glVars, verdict>>
    /\ UNCHANGED runnerVars

\* the script is over and the flag is not set: page.waitForFunction times out
WaitTimesOut ==
    /\ pc = "waitFlag" /\ ~CompletionFlag
    /\ verdict' = "fail"
    /\ pc' = "done"
    /\ UNCHANGED <<test, nav, gpuVars, glVars, result>>
    /\ UNCHANGED runnerVars

\* the driver's assertions on what the probe returned
AssertGL ==
    /\ pc = "assert" /\ test \in GLTests
    /\ verdict' = GLVerdict(test, result)
    /\ pc' = "done"
    /\ UNCHANGED <<test, nav, gpuVars, glVars, result>>
    /\ UNCHANGED runnerVars

(***************************************************************************)
(* The launch configuration: a flag is the pair of its name and its value, *)
(* the value empty for a flag without '='                                  *)
(***************************************************************************)
Switch(name) == <<name, "">>

linuxWebGPUFlags ==
    <<<<"--use-angle", "vulkan">>,
      <<"--enable-features", "WebGPU,Vulkan">>,
      Switch("--disable-vulkan-surface"),
      Switch("--enable-unsafe-webgpu"),
      Switch("--ignore-gpu-blocklist"),
      Switch("--disable-gpu-driver-bug-workarounds")>>

macWebGPUFlags ==
    <<<<"--use-angle", "metal">>,
      <<"--enable-features", "WebGPU,WebGPUDeveloperFeatures">>,
      Switch("--enable-unsafe-webgpu"),
      Switch("--ignore-gpu-blocklist"),
      Switch("--disable-gpu-driver-bug-workarounds"),
      Switch("--enable-gpu"),
      Switch("--no-sandbox"),
      Switch("--disable-dev-shm-usage")>>

windowsWebGPUFlags ==
    <<<<"--use-angle", "d3d11">>,
      <<"--enable-features", "WebGPU">>,
      Switch("--enable-unsafe-webgpu"),
      Switch("--ignore-gpu-blocklist"),
      Switch("--disable-gpu-driver-bug-workarounds")>>

\* a mutant: an unknown platform gets no flags
getPlatformWebGPUFlagsKnownOnly(platform) ==
    CASE platform = "linux" -> linuxWebGPUFlags
      [] platform = "darwin" -> macWebGPUFlags
      [] platform = "win32" -> windowsWebGPUFlags
      [] OTHER -> <<>>

\* switch (process.platform)
getPlatformWebGPUFlags(platform) ==
    CASE platform = "linux" -> linuxWebGPUFlags
      [] platform = "darwin" -> macWebGPUFlags
      [] platform = "win32" -> windowsWebGPUFlags
      [] OTHER -> <<<<"--enable-features", "WebGPU">>,
                    Switch("--enable-unsafe-webgpu"),
                    Switch("--ignore-gpu-blocklist")>>

\* the flag list of the headless configuration
chromiumGpuOnLinuxFlags ==
    <<<<"--use-angle", "vulkan">>,
      <<"--enable-features", "WebGPU,Vulkan">>,
      Switch("--disable-vulkan-surface"),
      Switch("--enable-unsafe-webgpu"),
      Switch("--ignore-gpu-blocklist"),
      Switch("--disable-gpu-driver-bug-workarounds")>>

\* the two configuration files
PlaywrightConfig == "playwright.config.js"
HeadlessConfig == "headless config"
Configs == {PlaywrightConfig, HeadlessConfig}

\* process.platform: the three the table knows and two it does not
ProcessPlatforms == {"linux", "darwin", "win32", "freebsd", "android"}

\* launchOptions.args of a configuration file on a platform
LaunchArgs(config, platform) ==
    IF config = PlaywrightConfig
    THEN getPlatformWebGPUFlags(platform)
         \o <<Switch("--enable-webgpu"),
              Switch("--enable-webgpu-developer-features"),
              Switch("--enable-unsafe-webgpu-developer-features")>>
    ELSE <<<<"--headless", "new">>>>
         \o (IF platform = "linux" THEN chromiumGpuOnLinuxFlags ELSE <<>>)

(***************************************************************************)
(* The chrome://gpu document: the body is node 0, nodes[i] is the i-th     *)
(* node below it in document order, an element, a text node or the shadow  *)
(* root of its parent. A text is the sequence of its tokens; the token     *)
(* "\n" is a line break, the only white space that stands alone.           *)
(***************************************************************************)
\* one feature row that names both states
RowBoth == <<"Canvas", "Hardware accelerated", "Software only">>
\* the texts of the document's text nodes: a healthy feature list, a row
\* that fell back to software, a row naming both states, the content of a
\* style element and of a script element, the white space between elements
Texts ==
    {<<"GPU process", "Vulkan", "Canvas", "Rasterization", "Hardware accelerated">>,
     <<"Rasterization", "Software only">>,
     RowBoth,
     <<":host", "{", "}">>,
     <<"GPU", "=>">>,
     <<"\n">>}

\* String.prototype.length: the tokens and the blanks between them
RECURSIVE Length(_)
Length(s) ==
    LET TokenLength(w) ==
            CASE w \in {"{", "}", "=", "\n"} -> 1
              [] w = "=>" -> 2
              [] w = "GPU" -> 3
              [] w = "Vulkan" -> 6
              [] w = "GPU process" -> 11
              [] w = ":host" -> 5
              [] w = "Canvas" -> 6
              [] w = "Rasterization" -> 13
              [] w = "Software only" -> 13
              [] w = "Hardware accelerated" -> 20
              [] w = "WebGPU" -> 6
              [] w = "Disabled" -> 8
              [] w \in {"ANGLE", "Metal", "Apple"} -> 5
              [] w = "M1" -> 2
              [] w = "Renderer" -> 8
              [] w = "Unspecified Version" -> 19
              [] OTHER -> 4
    IN IF s = <<>> THEN 0
       ELSE TokenLength(Head(s)) + (IF Len(s) > 1 THEN 1 ELSE 0) + Length(Tail(s))

\* String.prototype.trim
RECURSIVE trim(_)
trim(s) ==
    IF s = <<>> THEN s
    ELSE IF Head(s) = "\n" THEN trim(Tail(s))
    ELSE IF s[Len(s)] = "\n" THEN trim(SubSeq(s, 1, Len(s) - 1))
    ELSE s

\* String.prototype.split('\n')
RECURSIVE split(_)
split(s) ==
    IF \A i \in DOMAIN s : s[i] # "\n" THEN <<s>>
    ELSE LET k == CHOOSE i \in DOMAIN s :
                      s[i] = "\n" /\ \A j \in 1 .. (i - 1) : s[j] # "\n"
         IN <<SubSeq(s, 1, k - 1)>> \o split(SubSeq(s, k + 1, Len(s)))

\* Array.prototype.join('\n')
RECURSIVE join(_)
join(lines) ==
    IF lines = <<>> THEN <<>>
    ELSE IF Len(lines) = 1 THEN lines[1]
    ELSE lines[1] \o <<"\n">> \o join(Tail(lines))

\* node.nodeType; the body is an element
KindAt(nodes, n) == IF n = 0 THEN "element" ELSE nodes[n].kind

\* the documents of exactly n nodes below the body. NodesFor: the nodes that
\* can stand below the nodes before them: a text node has no children, an
\* element has at most one shadow root, a shadow root belongs to an element
RECURSIVE Trees(_, _)
Trees(texts, n) ==
    LET HasShadow(nodes, m) ==
            \E i \in DOMAIN nodes : nodes[i].parent = m /\ nodes[i].kind = "shadow"
        NodesFor(nodes) ==
            {[kind |-> "element", parent |-> q, text |-> <<>>] :
                q \in {m \in 0 .. Len(nodes) : KindAt(nodes, m) # "text"}}
            \cup {[kind |-> "text", parent |-> q, text |-> t] :
                q \in {m \in 0 .. Len(nodes) : KindAt(nodes, m) # "text"}, t \in texts}
            \cup {[kind |-> "shadow", parent |-> q, text |-> <<>>] :
                q \in {m \in 0 .. Len(nodes) :
                         KindAt(nodes, m) = "element" /\ ~HasShadow(nodes, m)}}
    IN IF n = 0 THEN {<<>>}
       ELSE UNION {{Append(nodes, nd) : nd \in NodesFor(nodes)} : nodes \in Trees(texts, n - 1)}

Documents == UNION {Trees(Texts, n) : n \in 0 .. MaxNodes}

\* the rows of the diagnostics page that name a feature or a backend: a
\* hardware accelerated Vulkan row, a disabled WebGPU row, and the driver
\* row 'GPU ANGLE (Apple, ANGLE Metal Renderer: Apple M1, Unspecified Version)'
RowVulkan == <<"Vulkan", "Hardware accelerated">>
RowWebGPU == <<"WebGPU", "Disabled">>
RowANGLE ==
    <<"GPU", "ANGLE", "Apple", "ANGLE", "Metal", "Renderer", "Apple", "M1",
      "Unspecified Version">>
DiagnosticTexts == {RowVulkan, RowWebGPU, RowANGLE}

\* the page as chrome://gpu builds it: custom elements below the body, each
\* with a shadow root that holds one row, appended to the nodes given
RECURSIVE Widgets(_, _)
Widgets(nodes, rows) ==
    IF rows = <<>> THEN nodes
    ELSE LET host == Len(nodes) + 1
         IN Widgets(nodes \o <<[kind |-> "element", parent |-> 0, text |-> <<>>],
                                [kind |-> "shadow", parent |-> host, text |-> <<>>],
                                [kind |-> "text", parent |-> host + 1,
                                 text |-> Head(rows)]>>,
                    Tail(rows))

\* pages of up to MaxWidgets such elements, the body with or without a
\* shadow root of its own that holds a row
WidgetPages ==
    {Widgets(start, rows) :
        start \in {<<>>} \cup
                  {<<[kind |-> "shadow", parent |-> 0, text |-> <<>>],
                     [kind |-> "text", parent |-> 1, text |-> t]>> :
                       t \in DiagnosticTexts},
        rows \in UNION {[1 .. k -> DiagnosticTexts] : k \in 0 .. MaxWidgets}}

DiagnosticDocuments ==
    UNION {Trees(DiagnosticTexts, n) : n \in 0 .. MaxNodes} \cup WidgetPages

\* sequence of sequences to one sequence
RECURSIVE Flatten(_)
Flatten(ss) == IF ss = <<>> THEN <<>> ELSE Head(ss) \o Flatten(Tail(ss))

\* node.childNodes, in document order
childNodes(nodes, n) ==
    SelectSeq([i \in DOMAIN nodes |-> i],
              LAMBDA i : nodes[i].parent = n /\ nodes[i].kind # "shadow")

\* element.shadowRoot: <<>> for null
shadowRoot(nodes, n) ==
    SelectSeq([i \in DOMAIN nodes |-> i],
              LAMBDA i : nodes[i].parent = n /\ nodes[i].kind = "shadow")

\* node.textContent: the texts below the node joined, shadow trees left out
RECURSIVE textContent(_, _)
textContent(nodes, n) ==
    IF KindAt(nodes, n) = "text" THEN nodes[n].text
    ELSE LET c == childNodes(nodes, n)
         IN Flatten([i \in DOMAIN c |-> textContent(nodes, c[i])])

\* a mutant: the recursion does not enter shadow roots
RECURSIVE RecursiveOrderLightOnly(_, _)
RecursiveOrderLightOnly(nodes, n) ==
    LET c == SelectSeq([i \in DOMAIN nodes |-> i],
                       LAMBDA i : nodes[i].parent = n /\ nodes[i].kind # "shadow")
    IN <<n>>
       \o IF c = <<>> THEN <<>>
          ELSE LET RECURSIVE each(_)
                   each(k) == IF k > Len(c) THEN <<>>
                              ELSE (IF nodes[c[k]].kind = "text" THEN <<c[k]>>
                                    ELSE RecursiveOrderLightOnly(nodes, c[k]))
                                   \o each(k + 1)
               IN each(1)

\* the order in which a recursive scraper handles the nodes: the node itself,
\* its shadow root and what is below it, then its child nodes, the elements
\* among them in the same way
RECURSIVE RecursiveOrder(_, _)
RecursiveOrder(nodes, n) ==
    LET sr == shadowRoot(nodes, n)
        c == childNodes(nodes, n)
    IN <<n>>
       \o (IF sr = <<>> THEN <<>> ELSE RecursiveOrder(nodes, sr[1]))
       \o Flatten([i \in DOMAIN c |->
                     IF nodes[c[i]].kind = "text" THEN <<c[i]>>
                     ELSE RecursiveOrder(nodes, c[i])])

\* traverseShadowDOM: the TreeWalker's nodes below root, in document order,
\* text nodes that are white space left out
RECURSIVE traverseShadowDOM(_, _)
traverseShadowDOM(nodes, root) ==
    LET c == childNodes(nodes, root)
    IN Flatten([i \in DOMAIN c |->
                  IF nodes[c[i]].kind = "text"
                  THEN (IF trim(nodes[c[i]].text) = <<>> THEN <<>> ELSE <<c[i]>>)
                  ELSE <<c[i]>> \o traverseShadowDOM(nodes, c[i])])

\* processShadowDOM: nothing for an element without a shadow root; else the
\* shadow root, the nodes the TreeWalker finds in it, and after each element
\* among them what processShadowDOM finds for it
RECURSIVE processShadowDOM(_, _)
processShadowDOM(nodes, element) ==
    LET sr == shadowRoot(nodes, element) IN
    IF sr = <<>> THEN <<>>
    ELSE LET shadowNodes == traverseShadowDOM(nodes, sr[1])
         IN <<sr[1]>>
            \o Flatten([i \in DOMAIN shadowNodes |->
                          <<shadowNodes[i]>>
                          \o (IF nodes[shadowNodes[i]].kind = "element"
                              THEN processShadowDOM(nodes, shadowNodes[i])
                              ELSE <<>>)])

(***************************************************************************)
(* The scrapers of the chrome://gpu tests                                  *)
(***************************************************************************)
\* 'should access chrome://gpu and extract GPU information'
GpuInformation == "gpuInformation"
\* 'should verify GPU acceleration status', the chrome://gpu variant
AccelStatusChrome == "accelStatusChrome"
\* 'should extract graphics backend information from chrome://gpu'
BackendInfo == "backendInfo"
\* 'should verify GPU acceleration and performance'
AccelPerf == "accelPerf"
ChromeTests == {GpuInformation, AccelStatusChrome, BackendInfo, AccelPerf}
\* 'should check Chrome GPU flags and WebGPU status'
WebGPUStatus == "webgpuStatus"
\* 'should extract graphics backend information from chrome://gpu', the
\* variant that keeps every line
BackendComprehensive == "backendComprehensive"
\* 'should take a snapshot of GPU information', the chrome://gpu variant
SnapshotChrome == "snapshotChrome"
\* the tests whose scraper reports the status of features and backends
DiagnosticTests ==
    {GpuInformation, AccelStatusChrome, WebGPUStatus, BackendComprehensive,
     SnapshotChrome}

\* the elements of a sequence, and the sequence mapped and filtered
Range(q) == {q[i] : i \in DOMAIN q}
NonEmpty(q) == SelectSeq(q, LAMBDA x : x # <<>>)

\* text.includes(a) || text.includes(b) || ...
includesAny(text, kws) == \E kw \in kws : includes(text, kw)

\* if Metal ... else if Vulkan ... else if OpenGL ... else if DirectX ... else if ANGLE
backendOf(text) ==
    IF includes(text, "Metal") THEN "Metal"
    ELSE IF includes(text, "Vulkan") THEN "Vulkan"
    ELSE IF includes(text, "OpenGL") THEN "OpenGL"
    ELSE IF includes(text, "DirectX") THEN "DirectX"
    ELSE IF includes(text, "ANGLE") THEN "ANGLE"
    ELSE ""

\* a mutant: a backend found later overwrites the one found before
lastBackend(texts) ==
    LET hits == SelectSeq(texts, LAMBDA t : backendOf(t) # "")
    IN IF hits = <<>> THEN "" ELSE backendOf(hits[Len(hits)])

\* the first backend found, own text before shadow root before children
RECURSIVE firstBackend(_)
firstBackend(texts) ==
    IF texts = <<>> THEN ""
    ELSE IF backendOf(Head(texts)) # "" THEN backendOf(Head(texts))
    ELSE firstBackend(Tail(texts))

\* a mutant: a text that says 'Hardware accelerated' cannot set softwareOnly
softwareOnlyUnlessHardware(texts) ==
    /\ \E i \in DOMAIN texts : includes(texts[i], "Software only")
    /\ ~\E i \in DOMAIN texts : includes(texts[i], "Hardware accelerated")

\* if (text.includes('Software only')) status.softwareOnly = true, over the
\* texts the scraper parses
softwareOnlyOf(texts) == \E i \in DOMAIN texts : includes(texts[i], "Software only")

\* getAccelerationStatus(document.body): trimmed is the trimmed textContent
\* of every node handled, own the texts of the elements and shadow roots
\* among them, the ones the function parses
getAccelerationStatus(nodes) ==
    LET order == RecursiveOrder(nodes, 0)
        trimmed == [i \in DOMAIN order |-> trim(textContent(nodes, order[i]))]
        own == NonEmpty([i \in DOMAIN order |->
                           IF KindAt(nodes, order[i]) = "text" THEN <<>>
                           ELSE trimmed[i]])
    IN [visited |-> Range(order),
        fragments |-> NonEmpty(trimmed),
        hardwareAccelerated |-> \E i \in DOMAIN own : includes(own[i], "Hardware accelerated"),
        softwareOnly |-> softwareOnlyOf(own),
        gpuProcess |-> \E i \in DOMAIN own : includes(own[i], "GPU process"),
        rasterization |-> \E i \in DOMAIN own : includes(own[i], "Rasterization"),
        canvas |-> \E i \in DOMAIN own : includes(own[i], "Canvas"),
        backend |-> firstBackend(own),
        problems |-> SelectSeq(own, LAMBDA t :
                        includesAny(t, {"Problem", "Disabled", "Blacklisted"}))]

\* a mutant: a node's own text decides alone, the shadow root and the child
\* elements are not merged
getWebGPUStatusOwnOnly(nodes, element) ==
    LET text == trim(textContent(nodes, element))
        named == includes(text, "WebGPU")
    IN [fragments |-> NonEmpty(<<text>>),
        hasWebGPU |-> named,
        webgpuStatus |-> IF named /\ includes(text, "Hardware accelerated")
                         THEN "Hardware accelerated" ELSE "",
        hardwareAccelerated |-> includes(text, "Hardware accelerated"),
        graphicsBackend |-> backendOf(text),
        problems |-> <<>>]

\* getWebGPUStatus(element): the status of the element's own text, merged
\* with the status of its shadow root, then with the status of every child
\* element in document order; "" stands for null, fragments are the pieces
\* of status.text. The features list, which no assertion reads, is left out
RECURSIVE getWebGPUStatus(_, _)
getWebGPUStatus(nodes, element) ==
    LET text == trim(textContent(nodes, element))
        named == includes(text, "WebGPU")
        own == [fragments |-> NonEmpty(<<text>>),
                hasWebGPU |-> named,
                webgpuStatus |->
                    IF ~named THEN ""
                    ELSE IF includes(text, "Hardware accelerated")
                    THEN "Hardware accelerated"
                    ELSE IF includes(text, "Software only") THEN "Software only"
                    ELSE IF includes(text, "Disabled") THEN "Disabled"
                    ELSE IF includes(text, "Problem") THEN "Problem"
                    ELSE "",
                hardwareAccelerated |-> includes(text, "Hardware accelerated"),
                graphicsBackend |-> backendOf(text),
                problems |-> IF includesAny(text, {"Problem", "Disabled", "Blacklisted"})
                             THEN <<text>> ELSE <<>>]
        merge(status, other) ==
            [fragments |-> status.fragments \o other.fragments,
             hasWebGPU |-> status.hasWebGPU \/ other.hasWebGPU,
             webgpuStatus |-> IF status.webgpuStatus = "" THEN other.webgpuStatus
                              ELSE status.webgpuStatus,
             hardwareAccelerated |->
                 status.hardwareAccelerated \/ other.hardwareAccelerated,
             graphicsBackend |-> IF status.graphicsBackend = ""
                                 THEN other.graphicsBackend
                                 ELSE status.graphicsBackend,
             problems |-> status.problems \o other.problems]
        sr == shadowRoot(nodes, element)
        RECURSIVE overChildren(_, _)
        overChildren(status, rest) ==
            IF rest = <<>> THEN status
            ELSE IF nodes[Head(rest)].kind = "text"
            THEN overChildren(
                     [status EXCEPT !.fragments =
                         @ \o NonEmpty(<<trim(nodes[Head(rest)].text)>>)],
                     Tail(rest))
            ELSE overChildren(merge(status, getWebGPUStatus(nodes, Head(rest))),
                              Tail(rest))
    IN overChildren(IF sr = <<>> THEN own
                    ELSE merge(own, getWebGPUStatus(nodes, sr[1])),
                    childNodes(nodes, element))

\* what isGPURelevant and the line filter take for style or script content
looksLikeCode(text) ==
    \/ includes(text, "{") /\ includes(text, "}")
    \/ includes(text, ":host") \/ includes(text, "@media")
    \/ includes(text, "function(") \/ includes(text, "=>")
    \/ includes(text, "=") /\ includes(text, "\"")

isGPURelevant(text) ==
    LET gpuKeywords ==
            {"GPU", "WebGPU", "WebGL", "Hardware", "Software", "Metal", "Vulkan",
             "OpenGL", "DirectX", "ANGLE", "Acceleration", "Process", "Canvas",
             "Rasterization", "Video", "Problem", "Status", "Feature", "Extension",
             "Capability", "Limit", "Version", "Vendor", "Renderer", "Enabled",
             "Disabled", "Yes", "No"}
    IN /\ text # <<>> /\ Length(text) >= 3
       /\ ~looksLikeCode(text)
       /\ includesAny(text, gpuKeywords)

\* getGPUInformation(): no element of the document matches the semantic
\* selectors, the text comes from processShadowDOM(document.body)
getGPUInformation(nodes) ==
    LET order == processShadowDOM(nodes, 0)
        texts == [i \in DOMAIN order |->
                    IF nodes[order[i]].kind = "shadow" THEN <<>>
                    ELSE trim(textContent(nodes, order[i]))]
        elements == SelectSeq(texts, LAMBDA t : t # <<>> /\ isGPURelevant(t))
        \* gpuData.status.set('graphicsBackend', ...) for every keyword an
        \* element's text holds, element after element; "" for a key never set
        backends == <<"Metal", "Vulkan", "OpenGL", "DirectX", "ANGLE">>
        RECURSIVE setBackend(_, _, _)
        setBackend(value, text, k) ==
            IF k > Len(backends) THEN value
            ELSE setBackend(IF includes(text, backends[k]) THEN backends[k] ELSE value,
                            text, k + 1)
        RECURSIVE forEach(_, _)
        forEach(value, rest) ==
            IF rest = <<>> THEN value
            ELSE forEach(setBackend(value, Head(rest), 1), Tail(rest))
    IN [visited |-> {0} \cup Range(order),
        fragments |-> elements,
        hardwareAcceleration |->
            \E i \in DOMAIN elements : includes(elements[i], "Hardware accelerated"),
        graphicsBackend |-> forEach("", elements)]

\* summaryReport.keyFeatures.graphicsBackend, from gpuInfo.text: the texts of
\* the scraped elements, a line each
summaryReport(gpuInfo) ==
    LET has(keyword) ==
            \E i \in DOMAIN gpuInfo.fragments : includes(gpuInfo.fragments[i], keyword)
    IN [graphicsBackend |-> IF has("Metal") THEN "Metal"
                            ELSE IF has("Vulkan") THEN "Vulkan"
                            ELSE IF has("OpenGL") THEN "OpenGL"
                            ELSE IF has("DirectX") THEN "DirectX"
                            ELSE IF has("ANGLE") THEN "ANGLE"
                            ELSE "Unknown"]

\* the filter of extractGraphicsBackendInfo on the lines of an element's text
filteredLines(content) ==
    LET lineKeywords ==
            {"Vulkan", "ANGLE", "GPU", "Hardware", "Software", "Metal", "OpenGL",
             "DirectX", "Acceleration", "Problem", "Feature", "Enabled", "Disabled",
             "Yes", "No"}
        lineKept(line) ==
            LET trimmed == trim(line) IN
            /\ trimmed # <<>> /\ Length(trimmed) >= 3
            /\ ~looksLikeCode(trimmed)
            /\ includesAny(trimmed, lineKeywords)
    IN SelectSeq(split(content), lineKept)

\* extractGraphicsBackendInfo(document.body); textNodeKept is its filter on a
\* child text node
extractGraphicsBackendInfo(nodes) ==
    LET textNodeKept(content) ==
            /\ content # <<>>
            /\ ~includes(content, "{") /\ ~includes(content, ":host")
            /\ ~includes(content, "@media")
            /\ Length(content) > 3
        order == RecursiveOrder(nodes, 0)
        kept == [i \in DOMAIN order |->
                   LET content == trim(textContent(nodes, order[i])) IN
                   IF KindAt(nodes, order[i]) = "text"
                   THEN (IF textNodeKept(content) THEN <<content>> ELSE <<>>)
                   ELSE filteredLines(content)]
        lines == Flatten([i \in DOMAIN order |->
                            IF KindAt(nodes, order[i]) = "text" THEN <<>> ELSE kept[i]])
    IN [visited |-> Range(order),
        fragments |-> [i \in DOMAIN NonEmpty(kept) |-> join(NonEmpty(kept)[i]) \o <<"\n">>],
        hardware |-> \E i \in DOMAIN lines : includes(lines[i], "Hardware accelerated"),
        software |-> \E i \in DOMAIN lines : includes(lines[i], "Software only"),
        metal |-> \E i \in DOMAIN lines : includes(lines[i], "Metal"),
        opengl |-> \E i \in DOMAIN lines : includes(lines[i], "OpenGL"),
        directx |-> \E i \in DOMAIN lines : includes(lines[i], "DirectX")]

\* extractGPUSnapshot(element): features and status are objects whose keys
\* are only ever set to true, here the sets of their keys, and Object.assign
\* of the shadow root's and of every child element's snapshot adds its keys
RECURSIVE extractGPUSnapshot(_, _)
extractGPUSnapshot(nodes, element) ==
    LET text == trim(textContent(nodes, element))
        keysOf(pairs) == {pair[1] : pair \in {q \in pairs : includes(text, q[2])}}
        own == [fragments |-> NonEmpty(<<text>>),
                features |-> keysOf({<<"webgpu", "WebGPU">>, <<"webgl", "WebGL">>,
                                     <<"angle", "ANGLE">>, <<"metal", "Metal">>,
                                     <<"vulkan", "Vulkan">>, <<"opengl", "OpenGL">>,
                                     <<"directx", "DirectX">>}),
                status |-> keysOf({<<"hardwareAccelerated", "Hardware accelerated">>,
                                   <<"softwareOnly", "Software only">>}),
                problems |-> IF includes(text, "Problem") THEN <<text>> ELSE <<>>]
        merge(snapshot, other) ==
            [fragments |-> snapshot.fragments \o other.fragments,
             features |-> snapshot.features \cup other.features,
             status |-> snapshot.status \cup other.status,
             problems |-> snapshot.problems \o other.problems]
        sr == shadowRoot(nodes, element)
        RECURSIVE overChildren(_, _)
        overChildren(snapshot, rest) ==
            IF rest = <<>> THEN snapshot
            ELSE IF nodes[Head(rest)].kind = "text"
            THEN overChildren(
                     [snapshot EXCEPT !.fragments =
                         @ \o NonEmpty(<<trim(nodes[Head(rest)].text)>>)],
                     Tail(rest))
            ELSE overChildren(merge(snapshot, extractGPUSnapshot(nodes, Head(rest))),
                              Tail(rest))
    IN overChildren(IF sr = <<>> THEN own
                    ELSE merge(own, extractGPUSnapshot(nodes, sr[1])),
                    childNodes(nodes, element))

\* extractGraphicsBackendInfo(element) of the variant that keeps every line:
\* the info of the element's own text, merged with the info of its shadow
\* root, then with the info of every child element; "" stands for null. The
\* child merge takes angle.backend from the child's vulkan.backend
RECURSIVE extractGraphicsBackendInfoComprehensive(_, _)
extractGraphicsBackendInfoComprehensive(nodes, element) ==
    LET text == trim(textContent(nodes, element))
        statusOf(keyword) ==
            IF ~includes(text, keyword) THEN ""
            ELSE IF includes(text, "Hardware accelerated") THEN "Hardware accelerated"
            ELSE IF includes(text, "Software only") THEN "Software only"
            ELSE IF includes(text, "Disabled") THEN "Disabled"
            ELSE IF includes(text, "Problem") THEN "Problem"
            ELSE ""
        own == [fragments |-> NonEmpty(<<text>>),
                vulkan |-> [detected |-> includes(text, "Vulkan"),
                            status |-> statusOf("Vulkan"),
                            backend |-> /\ includes(text, "Vulkan")
                                        /\ includes(text, "Hardware accelerated")],
                angle |-> [detected |-> includes(text, "ANGLE"),
                           status |-> statusOf("ANGLE"),
                           backend |-> /\ includes(text, "ANGLE")
                                       /\ includes(text, "Hardware accelerated")],
                graphics |-> [metal |-> includes(text, "Metal"),
                              opengl |-> includes(text, "OpenGL"),
                              directx |-> includes(text, "DirectX"),
                              software |-> includesAny(text, {"Software", "SwiftShader"})],
                acceleration |->
                    [hardware |-> includes(text, "Hardware accelerated"),
                     software |-> includes(text, "Software only"),
                     problems |->
                         IF includesAny(text, {"Problem", "Disabled", "Blacklisted"})
                         THEN <<text>> ELSE <<>>]]
        merge(info, other, angleBackend) ==
            [fragments |-> info.fragments \o other.fragments,
             vulkan |-> [detected |-> info.vulkan.detected \/ other.vulkan.detected,
                         status |-> IF info.vulkan.status = "" THEN other.vulkan.status
                                    ELSE info.vulkan.status,
                         backend |-> info.vulkan.backend \/ other.vulkan.backend],
             angle |-> [detected |-> info.angle.detected \/ other.angle.detected,
                        status |-> IF info.angle.status = "" THEN other.angle.status
                                   ELSE info.angle.status,
                        backend |-> info.angle.backend \/ angleBackend],
             graphics |-> [metal |-> info.graphics.metal \/ other.graphics.metal,
                           opengl |-> info.graphics.opengl \/ other.graphics.opengl,
                           directx |-> info.graphics.directx \/ other.graphics.directx,
                           software |-> info.graphics.software \/ other.graphics.software],
             acceleration |->
                 [hardware |-> info.acceleration.hardware \/ other.acceleration.hardware,
                  software |-> info.acceleration.software \/ other.acceleration.software,
                  problems |-> info.acceleration.problems \o other.acceleration.problems]]
        sr == shadowRoot(nodes, element)
        shadowInfo == extractGraphicsBackendInfoComprehensive(nodes, sr[1])
        RECURSIVE overChildren(_, _)
        overChildren(info, rest) ==
            IF rest = <<>> THEN info
            ELSE IF nodes[Head(rest)].kind = "text"
            THEN overChildren(
                     [info EXCEPT !.fragments =
                         @ \o NonEmpty(<<trim(nodes[Head(rest)].text)>>)],
                     Tail(rest))
            ELSE LET childInfo ==
                         extractGraphicsBackendInfoComprehensive(nodes, Head(rest))
                 IN overChildren(merge(info, childInfo, childInfo.vulkan.backend),
                                 Tail(rest))
    IN overChildren(IF sr = <<>> THEN own
                    ELSE merge(own, shadowInfo, shadowInfo.angle.backend),
                    childNodes(nodes, element))

\* featureStatusSection.locator('ul li').allTextContents(): the rows of the
\* feature list are the elements that hold text and no element
featureTexts(nodes) ==
    LET rows == SelectSeq([i \in DOMAIN nodes |-> i],
                    LAMBDA i : /\ nodes[i].kind = "element"
                               /\ childNodes(nodes, i) # <<>>
                               /\ \A j \in Range(childNodes(nodes, i)) :
                                     nodes[j].kind = "text")
    IN [i \in DOMAIN rows |-> textContent(nodes, rows[i])]

\* the loop over featureTexts of 'should verify GPU acceleration and performance'
featureRowStatus(nodes) ==
    LET clean == NonEmpty([i \in DOMAIN featureTexts(nodes) |->
                             trim(featureTexts(nodes)[i])])
        hw(t) == includes(t, "Hardware accelerated")
    IN [hardwareAccelerated |-> \E i \in DOMAIN clean : hw(clean[i]),
        softwareOnly |-> softwareOnlyOf(clean),
        rasterization |->
            \E i \in DOMAIN clean : includes(clean[i], "Rasterization") /\ hw(clean[i]),
        canvas |-> \E i \in DOMAIN clean : includes(clean[i], "Canvas") /\ hw(clean[i]),
        backend |-> IF \E i \in DOMAIN clean : backendOf(clean[i]) # ""
                    THEN backendOf(clean[CHOOSE i \in DOMAIN clean :
                            /\ backendOf(clean[i]) # ""
                            /\ \A j \in DOMAIN clean : j > i => backendOf(clean[j]) = ""])
                    ELSE ""]

\* what the in-page scraper of test t returns for a document
Scrape(t, nodes) ==
    CASE t = GpuInformation -> getGPUInformation(nodes)
      [] t = AccelStatusChrome -> getAccelerationStatus(nodes)
      [] t = BackendInfo -> extractGraphicsBackendInfo(nodes)
      [] t = WebGPUStatus -> getWebGPUStatus(nodes, 0)
      [] t = BackendComprehensive -> extractGraphicsBackendInfoComprehensive(nodes, 0)
      [] t = SnapshotChrome -> extractGPUSnapshot(nodes, 0)
      [] OTHER -> featureRowStatus(nodes)

(***************************************************************************)
(* The assertion layer of the chrome://gpu tests                           *)
(***************************************************************************)
\* the length of the accumulated text: every fragment and its separator
RECURSIVE textLength(_)
textLength(fragments) ==
    IF fragments = <<>> THEN 0
    ELSE Length(Head(fragments)) + 1 + textLength(Tail(fragments))

\* the properties of the object the probe of the line-filtering
\* 'should extract graphics backend information' returns: the info that
\* extractGraphicsBackendInfo built is its shadowInfo
BackendInfoReturn == {"shadowInfo", "graphicsElements", "combinedText"}

\* whether the expectations of test t are met by what its scraper returned
ChromeExpect(t, r) ==
    CASE t = GpuInformation ->
           \* expect(gpuText.length).toBeGreaterThan(100);
           \* expect(gpuText).toMatch(/GPU|Graphics|Hardware|Acceleration/i)
           /\ textLength(r.fragments) > 100
           /\ \E i \in DOMAIN r.fragments :
                 MatchesAny(r.fragments[i],
                            {"gpu", "graphics", "hardware", "acceleration"})
      [] t = AccelStatusChrome ->
           /\ r.hardwareAccelerated = TRUE
           /\ r.softwareOnly = FALSE
           /\ r.gpuProcess = TRUE
           /\ r.rasterization = TRUE
           /\ r.canvas = TRUE
           /\ r.backend # ""
           /\ SelectSeq(r.problems, LAMBDA q :
                 includesAny(q, {"Disabled", "Blacklisted", "Software only"})) = <<>>
      [] t = BackendInfo ->
           \* expect(graphicsBackendInfo.text.length).toBeGreaterThan(500): reading
           \* the length of a property the object does not have throws, before
           \* the pattern and hasAnyBackend are looked at
           /\ "text" \in BackendInfoReturn
           /\ textLength(r.fragments) > 500
      [] t = WebGPUStatus ->
           /\ textLength(r.fragments) > 100
           /\ \E i \in DOMAIN r.fragments :
                 MatchesAny(r.fragments[i],
                            {"gpu", "graphics", "hardware", "acceleration"})
      [] t = BackendComprehensive ->
           \* text.length > 500, the same pattern, and hasAnyBackend
           /\ textLength(r.fragments) > 500
           /\ \E i \in DOMAIN r.fragments :
                 MatchesAny(r.fragments[i],
                            {"gpu", "graphics", "hardware", "acceleration"})
           /\ \/ r.vulkan.backend \/ r.angle.backend
              \/ r.graphics.metal \/ r.graphics.opengl \/ r.graphics.directx
      [] t = SnapshotChrome ->
           \* text.length > 500, /GPU|Graphics|Hardware|Acceleration|WebGL|ANGLE/i,
           \* and hasAnyFeatures
           /\ textLength(r.fragments) > 500
           /\ \E i \in DOMAIN r.fragments :
                 MatchesAny(r.fragments[i],
                            {"gpu", "graphics", "hardware", "acceleration",
                             "webgl", "angle"})
           /\ r.features # {}
      [] OTHER ->
           /\ r.hardwareAccelerated = TRUE
           /\ r.softwareOnly = FALSE
           /\ r.rasterization = TRUE
           /\ r.canvas = TRUE
           /\ r.backend # ""

\* a failed expectation throws; the catch of the test, if any, logs it. The
\* body of every test but the locator-based one is one
\* try { ... } catch { console.log }
ChromeVerdict(t, met) ==
    LET SwallowsFailures == t # AccelPerf
    IN IF ~met /\ ~SwallowsFailures THEN "fail" ELSE "pass"

NoLaunch == [config |-> "none", platform |-> "none", args |-> <<>>]
NoDoc == [loaded |-> FALSE, nodes |-> <<>>, heading |-> FALSE]
NoRuns == [env |-> <<>>, runs |-> <<>>]

(***************************************************************************)
(* The specification                                                       *)
(***************************************************************************)
Navigators == [gpu : BOOLEAN, platform : Platforms, maxTouchPoints : {0, 5}]
DefaultNavigator == [gpu |-> FALSE, platform |-> <<"Linux", "x86_64">>, maxTouchPoints |-> 0]

\* the navigators a test can tell apart: the properties it does not read stay
\* at their defaults
NavigatorsRead(t) ==
    {n \in Navigators :
        /\ t \notin {Caps5000, FeatureDetect} => n.platform = DefaultNavigator.platform
        /\ t # FeatureDetect => n.maxTouchPoints = DefaultNavigator.maxTouchPoints
        /\ t \in {PerfCheck, AccelStatus, NvidiaDetect, VulkanDetect, HighPerf} =>
              n.gpu = DefaultNavigator.gpu}

Init ==
    /\ test = "idle" /\ pc = "idle"
    /\ nav = DefaultNavigator
    /\ adapterReq = NoPromise /\ timer = "none" /\ race = NoRace
    /\ deviceReq = NoPromise /\ device = "none"
    /\ mapReq = NoPromise /\ output = ExactOutput
    /\ glSupport = {} /\ canvasCtx = "none" /\ page = FreshPage
    /\ result = NoResult /\ verdict = "none"
    /\ launch = NoLaunch /\ doc = NoDoc /\ probeRuns = NoRuns

\* the runner starts a test on a fresh page
StartTest ==
    /\ pc = "idle"
    /\ \/ test' \in GPUTests /\ UNCHANGED glSupport
       \/ test' \in GLTests /\ glSupport' \in SUBSET ContextTypes
    /\ nav' \in NavigatorsRead(test')
    /\ pc' = "probe"
    /\ UNCHANGED <<gpuVars, canvasCtx, page, result, verdict>>
    /\ UNCHANGED runnerVars

Next ==
    \/ StartTest
    \/ ProbeEntry
    \/ requestAdapterSettles
    \/ TimerFires
    \/ AfterAdapter
    \/ requestDeviceSettles
    \/ AfterDevice
    \/ mapAsyncSettles
    \/ AfterMap
    \/ AssertWebGPU
    \/ EvalGLProbe
    \/ PageScript
    \/ WaitForFunction
    \/ WaitTimesOut
    \/ AssertGL

Spec == Init /\ [][Next]_vars

(***************************************************************************)
(* The runner beside the WebGL / WebGPU tests: it loads a configuration    *)
(* file, runs the tests that scrape chrome://gpu, and runs the capability  *)
(* probe again on a canvas that already ran it                             *)
(***************************************************************************)
\* the runner evaluates a configuration file
LoadConfig ==
    /\ pc = "idle"
    /\ \E config \in Configs, platform \in ProcessPlatforms :
         launch' = [config |-> config, platform |-> platform,
                    args |-> LaunchArgs(config, platform)]
    /\ pc' = "configured"
    /\ UNCHANGED <<test, nav, gpuVars, glVars, result, verdict, doc, probeRuns>>

\* page.goto('chrome://gpu'): the page loads some document, or the navigation
\* throws
Navigate ==
    /\ pc = "idle"
    /\ \E t \in ChromeTests :
         /\ test' = t
         /\ \/ /\ doc' \in {[loaded |-> TRUE, nodes |-> d, heading |-> h] :
                              d \in Documents,
                              h \in IF t = AccelPerf THEN BOOLEAN ELSE {FALSE}}
               /\ pc' = "probe"
               /\ UNCHANGED verdict
            \/ /\ doc' = NoDoc
               /\ verdict' = ChromeVerdict(t, FALSE)
               /\ pc' = "done"
    /\ UNCHANGED <<nav, gpuVars, glVars, result, launch, probeRuns>>

\* page.goto('chrome://gpu') of a test that reports feature and backend
\* status, on a page made of feature rows
NavigateDiagnostics ==
    /\ pc = "idle"
    /\ \E t \in DiagnosticTests :
         /\ test' = t
         /\ \/ /\ doc' \in {[loaded |-> TRUE, nodes |-> d, heading |-> FALSE] :
                              d \in DiagnosticDocuments}
               /\ pc' = "probe"
               /\ UNCHANGED verdict
            \/ /\ doc' = NoDoc
               /\ verdict' = ChromeVerdict(t, FALSE)
               /\ pc' = "done"
    /\ UNCHANGED <<nav, gpuVars, glVars, result, launch, probeRuns>>

\* the scraper runs in the page; the locator-based test first waits for the
\* heading 'Graphics Feature Status' and times out without it
ScrapePage ==
    /\ pc = "probe" /\ test \in ChromeTests \cup DiagnosticTests
    /\ IF test = AccelPerf /\ ~doc.heading
       THEN /\ verdict' = ChromeVerdict(test, FALSE)
            /\ pc' = "done"
            /\ UNCHANGED result
       ELSE /\ result' = Scrape(test, doc.nodes)
            /\ pc' = "assert"
            /\ UNCHANGED verdict
    /\ UNCHANGED <<test, nav, gpuVars, glVars, launch, doc, probeRuns>>

\* the expectations of the test on what the scraper returned
AssertChrome ==
    /\ pc = "assert" /\ test \in ChromeTests \cup DiagnosticTests
    /\ verdict' = ChromeVerdict(test, ChromeExpect(test, result))
    /\ pc' = "done"
    /\ UNCHANGED <<test, nav, gpuVars, glVars, result, launch, doc, probeRuns>>

\* the limits a browser session reports to the capability probe
SessionValues ==
    {v \in ValuesRead(FeatureDetect) : v.extensions = 11 /\ v.debugInfo = <<>>}

\* a page with a fresh canvas in a browser session
OpenCanvas ==
    /\ pc = "idle"
    /\ test' = FeatureDetect
    /\ glSupport' \in SUBSET ContextTypes
    /\ nav' \in NavigatorsRead(FeatureDetect)
    /\ \E v \in SessionValues, l2 \in GL2Limits :
         probeRuns' = [env |-> <<[values |-> v, limits2 |-> l2]>>, runs |-> <<>>]
    /\ pc' = "canvas"
    /\ UNCHANGED <<gpuVars, canvasCtx, page, result, verdict, launch, doc>>

\* the capability probe runs on the canvas, once more
ProbeAgain ==
    /\ pc = "canvas" /\ Len(probeRuns.runs) < MaxRuns
    /\ LET p == EvalProbe(test, canvasCtx, glSupport, nav,
                          probeRuns.env[1].values, probeRuns.env[1].limits2, 0)
       IN /\ probeRuns' = [probeRuns EXCEPT !.runs = Append(@, p.rec)]
          /\ canvasCtx' = p.canvas
    /\ UNCHANGED <<test, pc, nav, gpuVars, glSupport, page, result, verdict, launch, doc>>

RunnerNext ==
    \/ LoadConfig
    \/ Navigate
    \/ ScrapePage
    \/ AssertChrome
    \/ OpenCanvas
    \/ ProbeAgain

RunnerSpec == Init /\ [][RunnerNext]_vars

\* the runs of the tests that report feature and backend status
DiagnosticsNext ==
    \/ NavigateDiagnostics
    \/ ScrapePage
    \/ AssertChrome

DiagnosticsSpec == Init /\ [][DiagnosticsNext]_vars

(***************************************************************************)
(* The claims                                                              *)
(***************************************************************************)
\* the probe has run and the canvas holds no context: none could be created
NoContextCreated == pc \notin {"idle", "probe"} /\ canvasCtx = "none"

\* C1: every test that probes a WebGL context ends failed when no WebGL
\* context could be created; none of them passes without WebGL.
C1_NoWebGLFailsTheTest ==
    (test \in EvalGLTests /\ pc = "done" /\ NoContextCreated) => verdict = "fail"

\* C2: every WebGPU probe that has called navigator.gpu.requestAdapter() has
\* that request in a race with a timer that is armed or has fired, so that a
\* request that never settles cannot hold the probe.
C2_AdapterRequestIsRaced ==
    (test \in GPUTests /\ adapterReq.st # "none") =>
        (race.st # "none" /\ timer # "none")

\* the record the capabilities probe returns when the adapter decided the race
AdapterDecides(r, o) ==
    CASE o.kind = "error" -> ~r.supported /\ r.reason = o.msg
      [] o.kind = "null" -> ~r.supported /\ r.reason = "No adapter available"
      [] OTHER -> r.supported /\ r.limits.maxTextureDimension2D = o.dim2D

\* C3: in the adapter-capabilities probe with the 5000 ms race the outcome is
\* decided once, by whichever of the adapter request and the timer settles
\* first: the settled race never changes and the returned record never
\* changes; when the timer was first the record is supported: false with
\* reason 'Timeout' and the test does not fail; when the adapter was first the
\* record is the one the adapter's answer gives, whatever the timer does later.
C3_RaceDecidedOnce ==
    /\ [][race.st = "settled" => race' = race]_vars
    /\ [][Returned => result' = result]_vars
    /\ []((test = Caps5000 /\ Returned /\ race.st = "settled") =>
            /\ race.by = "timer" =>
                 /\ ~result.supported /\ result.reason = "Timeout"
                 /\ verdict # "fail"
                 /\ pc = "done" => verdict = "pass"
            /\ race.by = "adapter" =>
                 /\ race.out = adapterReq.out
                 /\ AdapterDecides(result, race.out))

\* C3 witness: the timer won, the probe returned 'Timeout', the test passed,
\* and the adapter request was answered with an adapter afterwards
C3_Witness ==
    /\ test = Caps5000 /\ pc = "done" /\ verdict = "pass"
    /\ race.by = "timer" /\ result.reason = "Timeout"
    /\ adapterReq.st = "settled" /\ adapterReq.out.kind = "adapter"

\* C4: the adapter-capabilities probe with the 5000 ms race returns a result
\* under every behaviour of the browser: it is never left without a result in
\* a state where nothing more can happen.
C4_CapsProbeReturns ==
    (test = Caps5000 /\ pc # "idle") => (Returned \/ ENABLED Next)

\* C5: whenever a WebGPU probe ends with supported == false, the test passes.
C5_UnsupportedPasses ==
    (test \in GPUTests /\ pc = "done" /\ ~result.supported) => verdict = "pass"

\* C5 witness: the compute test is over after an exception inside the probe
C5_Witness ==
    /\ test = Compute /\ pc = "done"
    /\ ~result.supported /\ result.error = "OperationError"

\* the adapter request was answered with null and that answer reached the probe
NullAdapter == Awaited.st = "settled" /\ Awaited.out.kind = "null"

\* C6 as stated: every WebGPU probe returns a record with a boolean
\* 'supported'; whenever supported is false the record carries a non-empty
\* 'reason'; in the adapter-capabilities probe a null adapter yields exactly
\* {supported: false, reason: 'No adapter available'}.
C6_RecordCarriesReason ==
    (test \in GPUTests /\ result # NoResult) =>
        /\ "supported" \in DOMAIN result /\ result.supported \in BOOLEAN
        /\ ~result.supported => ("reason" \in DOMAIN result /\ result.reason # "")
        /\ (test \in {Caps5000, CapsPlain} /\ NullAdapter) =>
              result = [supported |-> FALSE, reason |-> "No adapter available"]

\* the field a probe explains a negative result in
ReasonField(t) == IF t \in {Caps5000, CapsPlain} THEN "reason" ELSE "error"
\* some request of the run was rejected with an empty message
EmptyMessageCaught ==
    \E q \in {adapterReq, deviceReq, mapReq} :
        q.st = "settled" /\ q.out.kind = "error" /\ q.out.msg = ""

\* C6 amended: every WebGPU probe that is past its last step has returned a
\* record with a boolean 'supported'; whenever supported is false the record
\* carries an explanation, in 'reason' in the adapter-capabilities probes and
\* in 'error' in the detect and compute probes, which is empty only when it is
\* the empty message of a caught exception; in the adapter-capabilities probe
\* a null adapter yields supported: false with reason 'No adapter available',
\* and no field besides userAgent and platform.
C6_RecordCarriesExplanation ==
    /\ (test \in GPUTests /\ pc \in {"assert", "done"}) => Returned
    /\ (test \in GPUTests /\ Returned) =>
        /\ result.supported \in BOOLEAN
        /\ ~result.supported =>
              /\ ReasonField(test) \in DOMAIN result
              /\ result[ReasonField(test)] = "" => EmptyMessageCaught
        /\ (test \in {Caps5000, CapsPlain} /\ NullAdapter) =>
              /\ ~result.supported
              /\ result.reason = "No adapter available"
              /\ DOMAIN result \subseteq {"supported", "reason", "userAgent", "platform"}

\* C6 witness: the probe with the race returned after a null adapter
C6_Witness ==
    /\ test = Caps5000 /\ Returned /\ NullAdapter
    /\ result.reason = "No adapter available"

\* C7: no WebGPU probe returns while a device it obtained is still alive.
C7_DeviceDestroyedOnReturn ==
    (test \in GPUTests /\ Returned) => device # "alive"

\* C8 as stated: when compute is supported the test passes only if every
\* element of the output is within the tolerance of the sum.
C8_PassNeedsEveryIndex ==
    (test = Compute /\ pc = "done" /\ result.supported /\ verdict = "pass") =>
        \A i \in Idx : output[i] < Tolerance

\* C8 amended: when compute is supported the test passes if and only if each
\* of the first five elements of the output is within the tolerance of the
\* sum; a wrong value at any of the first five indices makes the test fail.
C8_PassNeedsFirstFive ==
    (test = Compute /\ pc = "done" /\ result.supported) =>
        (verdict = "pass" <=> \A i \in Idx : i < SampleLimit => output[i] < Tolerance)

\* C8 witness: the last verified element alone is off by the tolerance, the
\* test failed
C8_Witness ==
    /\ test = Compute /\ pc = "done" /\ result.supported /\ verdict = "fail"
    /\ output[SampleLimit - 1] = Tolerance
    /\ \A i \in Idx \ {SampleLimit - 1} : output[i] = 0

\* C9: in every report of the WebGL feature-detection probe, webgl2 == true
\* implies webgl == true, whichever context types the browser can create.
C9_Webgl2ImpliesWebgl ==
    (test \in {FeatureDetect, FeatureDetectG5} /\ result # NoResult) =>
        (("webgl2" \in DOMAIN result /\ result.webgl2) => result.webgl)

\* C9 witness: a browser that creates WebGL2 contexts only, reported as webgl2
C9_Witness ==
    /\ test = FeatureDetect /\ glSupport = {"webgl2"}
    /\ result # NoResult /\ "webgl2" \in DOMAIN result /\ result.webgl2

\* the negative value a probe reports when it has no context
NegativeReport ==
    CASE test \in {FeatureDetect, FeatureDetectG5, NvidiaDetect} -> result = [webgl |-> FALSE]
      [] test = PerfCheck -> result = [error |-> "No WebGL context"]
      [] test = AccelStatus -> result = [hasWebGL |-> FALSE]
      [] test = VulkanDetect -> result = [supported |-> FALSE]
      [] test = Snapshot ->
           page.results = <<"WebGL", "Not", "Supported", "WebGL", "2.0", "Not", "Supported">>
                           \o (IF nav.gpu THEN <<"WebGPU", "Available">> ELSE <<>>)
      [] OTHER -> TRUE

\* C10: every in-page WebGL probe that could create no context reports a
\* negative result as a value and does not throw, the draw-call page included.
C10_NoContextIsAValue ==
    (test \in GLTests /\ NoContextCreated) => (~page.threw /\ NegativeReport)

\* a power of two, as far as texture sizes go
IsPowerOfTwo(n) == \E k \in 0 .. 15 : n = 2 ^ k

\* the floor the platform of the report sets: Linux 4096, Apple-Silicon Mac
\* 16384, other Mac 8192, none otherwise
PlatformFloor(r) ==
    IF "Linux" \in {r.platform[i] : i \in DOMAIN r.platform} THEN 4096
    ELSE IF r.platform = <<"MacIntel">> THEN (IF r.isAppleSilicon THEN 16384 ELSE 8192)
    ELSE 0

\* C11: the WebGL feature-detection test passes only if the reported
\* maxTextureSize is a power of two, at least 2048 and at least the floor of
\* the platform; 5000 on Linux makes the test fail.
C11_PassNeedsPowerOfTwo ==
    (test = FeatureDetect /\ pc = "done" /\ verdict = "pass") =>
        /\ IsPowerOfTwo(result.limits.maxTextureSize)
        /\ result.limits.maxTextureSize >= 2048
        /\ result.limits.maxTextureSize >= PlatformFloor(result)

\* the words of the renderer string of the report, lower case
RendererWords(r) ==
    IF r.renderer = <<>> THEN {}
    ELSE {Lower(r.renderer[1].renderer[i]) : i \in DOMAIN r.renderer[1].renderer}

\* the floor of the first vendor the renderer string matches, in the order
\* nvidia 8192, amd/radeon 4096, intel 2048, apple/m1/m2/m3 16384
VendorFloor(r) ==
    LET w == RendererWords(r) IN
    IF "nvidia" \in w THEN 8192
    ELSE IF w \cap {"amd", "radeon"} # {} THEN 4096
    ELSE IF "intel" \in w THEN 2048
    ELSE IF w \cap {"apple", "m1", "m2", "m3"} # {} THEN 16384
    ELSE 0

\* the vendor branch taken is the Apple one
AppleBranch(r) ==
    LET w == RendererWords(r) IN
    /\ w \cap {"nvidia", "amd", "radeon", "intel"} = {}
    /\ w \cap {"apple", "m1", "m2", "m3"} # {}

Max3(a, b, c) ==
    IF a >= b /\ a >= c THEN a ELSE IF b >= c THEN b ELSE c

RequiredTextureSize(r) == Max3(2048, PlatformFloor(r), VendorFloor(r))

\* what the test expects besides the texture size
OtherExpectations(r) ==
    /\ r.extensions > 5
    /\ PlatformFloor(r) = 16384 =>
          r.webgl2 /\ r.limits.maxCombinedTextureImageUnits >= 32
    /\ AppleBranch(r) => r.webgl2
    /\ r.webgl2 =>
          /\ r.webgl2Limits[1].maxColorAttachments >= 4
          /\ r.webgl2Limits[1].max3DTextureSize >= 256
          /\ r.webgl2Limits[1].maxArrayTextureLayers >= 256

\* C12 as stated: the required maxTextureSize is the maximum of 2048, the
\* platform floor and the floor of the first matching vendor, the test passes
\* its texture-size checks exactly when maxTextureSize reaches it, and a
\* renderer string containing 'apple' always requires 16384.
C12_AppleAlwaysRequires16384 ==
    (test = FeatureDetect /\ pc = "done" /\ result.webgl) =>
        /\ verdict = "pass" <=>
              /\ result.limits.maxTextureSize >= RequiredTextureSize(result)
              /\ OtherExpectations(result)
        /\ ("apple" \in RendererWords(result) /\ verdict = "pass") =>
              result.limits.maxTextureSize >= 16384

\* C12 amended: the required maxTextureSize is the maximum of 2048, the
\* platform floor and the floor of the first matching vendor in the order
\* nvidia, amd/radeon, intel, apple/m1/m2/m3; the test passes its texture-size
\* checks exactly when maxTextureSize reaches it; a renderer string containing
\* 'apple' requires 16384 when it contains none of nvidia, amd, radeon, intel.
C12_RequiredIsMaxOfFloors ==
    (test = FeatureDetect /\ pc = "done" /\ result.webgl) =>
        /\ verdict = "pass" <=>
              /\ result.limits.maxTextureSize >= RequiredTextureSize(result)
              /\ OtherExpectations(result)
        /\ (AppleBranch(result) /\ verdict = "pass") =>
              result.limits.maxTextureSize >= 16384

\* C12 witness: on Linux with an NVIDIA renderer a maxTextureSize of 4096
\* reaches the platform floor, not the vendor floor, and the test failed
C12_Witness ==
    /\ test = FeatureDetect /\ pc = "done" /\ verdict = "fail"
    /\ result.webgl /\ result.limits.maxTextureSize = 4096
    /\ PlatformFloor(result) = 4096 /\ VendorFloor(result) = 8192
    /\ OtherExpectations(result)

\* the strings a test inspects for signs of software rendering
InspectedStrings ==
    CASE test = AccelStatus ->
           {IF result.unmaskedRenderer # <<>> THEN result.unmaskedRenderer
            ELSE result.renderer}
      [] test = NvidiaDetect ->
           {result.vendor \o result.renderer
            \o result.unmaskedVendor \o result.unmaskedRenderer}
      [] OTHER -> {}

\* C13: 'should verify GPU acceleration status' and 'should detect NVIDIA GPU
\* on G5 instance' fail whenever the string they inspect matches one of the
\* software-rasterizer signatures SwiftShader, Software, llvmpipe.
C13_SoftwareRendererFails ==
    (/\ test \in {AccelStatus, NvidiaDetect} /\ pc = "done"
     /\ canvasCtx # "none"
     /\ \E s \in InspectedStrings : MatchesAny(s, {"swiftshader", "software", "llvmpipe"}))
        => verdict = "fail"

\* the values of the flags of that name among the args
FlagValues(args, name) == {args[i][2] : i \in {j \in DOMAIN args : args[j][1] = name}}
\* how many of the args are flags of that name
FlagCount(args, name) == Cardinality({i \in DOMAIN args : args[i][1] = name})

\* the ANGLE backend the claim names for a platform
AngleBackend(platform) ==
    CASE platform = "linux" -> {"vulkan"}
      [] platform = "darwin" -> {"metal"}
      [] platform = "win32" -> {"d3d11"}
      [] OTHER -> {}

\* C14: on every platform the launch args playwright.config.js builds contain
\* --use-angle=vulkan on linux, --use-angle=metal on darwin, --use-angle=d3d11
\* on win32, at most one --use-angle flag and at most one --enable-features
\* flag, and --enable-unsafe-webgpu and --ignore-gpu-blocklist everywhere,
\* unknown platforms included.
C14_LaunchArgsPerPlatform ==
    launch.config = PlaywrightConfig =>
        /\ AngleBackend(launch.platform) \subseteq FlagValues(launch.args, "--use-angle")
        /\ FlagCount(launch.args, "--use-angle") <= 1
        /\ FlagCount(launch.args, "--enable-features") <= 1
        /\ FlagCount(launch.args, "--enable-unsafe-webgpu") >= 1
        /\ FlagCount(launch.args, "--ignore-gpu-blocklist") >= 1

\* C14 witness: playwright.config.js was loaded on a platform the table does
\* not know, and the WebGPU flags are there
C14_Witness ==
    /\ launch.config = PlaywrightConfig /\ launch.platform = "freebsd"
    /\ FlagCount(launch.args, "--enable-unsafe-webgpu") = 1
    /\ FlagCount(launch.args, "--use-angle") = 0

\* C15: on every platform the headless configuration passes the platform's
\* flag list of playwright.config.js, the Metal ANGLE flag on darwin and the
\* Direct3D11 ANGLE flag on win32 among them.
C15_SingleFlagTable ==
    launch.config = HeadlessConfig =>
        LET table == getPlatformWebGPUFlags(launch.platform) IN
        \A i \in DOMAIN table : \E j \in DOMAIN launch.args : launch.args[j] = table[i]

\* the elements and shadow roots below the body: each is reachable from the
\* body through childNodes and shadowRoot links
ElementsAndShadowRoots == {i \in DOMAIN doc.nodes : doc.nodes[i].kind # "text"}

\* C16: every scraper visits every element and every shadow root reachable
\* from document.body through childNodes and shadowRoot links, at any depth,
\* the recursive scrapers and the processShadowDOM scrapers alike.
C16_EveryNodeVisited ==
    (test \in ChromeTests /\ "visited" \in DOMAIN result) =>
        ElementsAndShadowRoots \subseteq result.visited

\* a fragment that looks like style or script content
LooksLikeStyleOrScript(fragment) ==
    LET has(w) == \E i \in DOMAIN fragment :
                      fragment[i] = w \/ (w = "=" /\ fragment[i] = "=>")
    IN \/ has(":host") \/ has("@media") \/ has("function(") \/ has("=>")
       \/ has("{") /\ has("}")
       \/ has("=") /\ has("\"")

\* C17: no fragment a filtering scraper appends to its text looks like style
\* or script content, on the isGPURelevant path and on both paths of the
\* line-filtering extractGraphicsBackendInfo.
C17_NoCodeInFragments ==
    (test \in {GpuInformation, BackendInfo} /\ "fragments" \in DOMAIN result) =>
        \A i \in DOMAIN result.fragments : ~LooksLikeStyleOrScript(result.fragments[i])

\* the text nodes whose text the acceleration-status scraper of the test
\* parses: all of them for the recursive scraper, those of the feature rows
\* for the locator-based one
ParsedTextNodes ==
    {i \in DOMAIN doc.nodes :
        /\ doc.nodes[i].kind = "text"
        /\ test = AccelPerf =>
              LET q == doc.nodes[i].parent IN
              /\ q # 0 /\ doc.nodes[q].kind = "element"
              /\ \A j \in DOMAIN doc.nodes :
                    (doc.nodes[j].parent = q /\ doc.nodes[j].kind # "shadow")
                        => doc.nodes[j].kind = "text"}

Mentions(phrase) ==
    \E i \in ParsedTextNodes : \E k \in DOMAIN doc.nodes[i].text :
        doc.nodes[i].text[k] = phrase

\* C18: in the acceleration-status scrapers hardwareAccelerated and
\* softwareOnly are set independently: each is true exactly when some parsed
\* text contains its own phrase, whatever the other phrase does, so both are
\* true for a document that has both phrases, in one feature row as well, and
\* both are false for a document that has neither.
C18_FlagsSetIndependently ==
    (test \in {AccelStatusChrome, AccelPerf} /\ "softwareOnly" \in DOMAIN result) =>
        /\ result.hardwareAccelerated = Mentions("Hardware accelerated")
        /\ result.softwareOnly = Mentions("Software only")

\* C18 witness: the document is one feature row that names both states, and
\* the status has both flags true
C18_Witness ==
    /\ test = AccelPerf /\ "softwareOnly" \in DOMAIN result
    /\ Len(doc.nodes) = 2 /\ doc.nodes[2].text = RowBoth
    /\ result.hardwareAccelerated /\ result.softwareOnly

\* what the claim lists as the expectations of the test
StatusMeetsExpectations ==
    /\ result.hardwareAccelerated /\ ~result.softwareOnly
    /\ result.gpuProcess /\ result.rasterization /\ result.canvas
    /\ result.backend # ""
    /\ \A i \in DOMAIN result.problems :
          \A k \in DOMAIN result.problems[i] :
              result.problems[i][k] \notin {"Disabled", "Blacklisted", "Software only"}

\* C19: the chrome://gpu test 'should verify GPU acceleration status' fails
\* whenever the scraped status violates one of its expectations.
C19_ViolatedExpectationFails ==
    (test = AccelStatusChrome /\ pc = "done" /\ doc.loaded /\ ~StatusMeetsExpectations)
        => verdict = "fail"

\* the flags and the limits of a report
FlagsAndLimits(r) ==
    IF r.webgl THEN <<r.webgl, r.webgl2, r.limits, r.webgl2Limits>> ELSE <<r.webgl>>

Scraped(t) == test = t /\ doc.loaded /\ pc \in {"assert", "done"}

\* the rows of the page: the texts of its text nodes
PageRows == {doc.nodes[i].text : i \in {j \in DOMAIN doc.nodes : doc.nodes[j].kind = "text"}}

\* a row holds a word
Says(row, word) == \E k \in DOMAIN row : row[k] = word

\* C21: the WebGPU status of the diagnostics scraper is the status of the
\* WebGPU row: it is 'Hardware accelerated' only if a row that names WebGPU
\* says 'Hardware accelerated', never because another feature's row says so.
C21_StatusIsOfTheWebGPURow ==
    (Scraped(WebGPUStatus) /\ result.webgpuStatus = "Hardware accelerated") =>
        \E row \in PageRows : Says(row, "WebGPU") /\ Says(row, "Hardware accelerated")

\* node m is node n or lies below it, through child and shadow-root links
RECURSIVE Below(_, _)
Below(m, n) == m = n \/ (m # 0 /\ Below(doc.nodes[m].parent, n))

\* the elements and shadow roots at and below node n
ElementsBelow(n) ==
    {m \in 0 .. Len(doc.nodes) : KindAt(doc.nodes, m) # "text" /\ Below(m, n)}

\* the word occurs in the textContent of node n or of an element or shadow
\* root below it
OccursBelow(word, n) ==
    \E m \in ElementsBelow(n) : includes(trim(textContent(doc.nodes, m)), word)

BackendOrder == <<"Metal", "Vulkan", "OpenGL", "DirectX", "ANGLE">>

\* the first of them that occurs in a text, "" if none does
FirstBackendIn(text) ==
    IF \E k \in DOMAIN BackendOrder : includes(text, BackendOrder[k])
    THEN BackendOrder[CHOOSE k \in DOMAIN BackendOrder :
            /\ includes(text, BackendOrder[k])
            /\ \A j \in 1 .. (k - 1) : ~includes(text, BackendOrder[j])]
    ELSE ""

\* the backend the claim gives for node n: that of its own textContent, else
\* the first one given for its shadow root and then its child elements
RECURSIVE ChosenBackend(_)
ChosenBackend(n) ==
    LET own == FirstBackendIn(trim(textContent(doc.nodes, n)))
        lower == SelectSeq([i \in DOMAIN doc.nodes |-> i], LAMBDA i :
                     doc.nodes[i].parent = n /\ doc.nodes[i].kind = "shadow")
                 \o SelectSeq([i \in DOMAIN doc.nodes |-> i], LAMBDA i :
                        doc.nodes[i].parent = n /\ doc.nodes[i].kind = "element")
        given == SelectSeq([i \in DOMAIN lower |-> ChosenBackend(lower[i])],
                           LAMBDA b : b # "")
    IN IF own # "" THEN own ELSE IF given # <<>> THEN given[1] ELSE ""

\* C23: in the recursive scrapers the backend of a node is chosen once: the
\* first of Metal, Vulkan, OpenGL, DirectX, ANGLE in the node's own
\* textContent, else the first backend of its shadow root and then of its
\* child elements in document order; it is null only if no element or shadow
\* root at or below the node mentions a backend.
C23_BackendChosenOnce ==
    /\ Scraped(WebGPUStatus) =>
          /\ result = getWebGPUStatus(doc.nodes, 0)
          /\ \A n \in ElementsBelow(0) :
                LET backend == getWebGPUStatus(doc.nodes, n).graphicsBackend IN
                /\ backend = ChosenBackend(n)
                /\ (backend = "") =
                       (\A k \in DOMAIN BackendOrder : ~OccursBelow(BackendOrder[k], n))
    /\ Scraped(AccelStatusChrome) =>
          /\ result.backend = ChosenBackend(0)
          /\ (result.backend = "") =
                 (\A k \in DOMAIN BackendOrder : ~OccursBelow(BackendOrder[k], 0))

\* C23 witness: the shadow root of the body holds 'ANGLE Metal', a custom
\* element after it holds the Vulkan row in its shadow root, the body has no
\* text of its own, and the backend reported is the shadow root's Metal
C23_Witness ==
    /\ Scraped(WebGPUStatus)
    /\ doc.nodes = Widgets(<<[kind |-> "shadow", parent |-> 0, text |-> <<>>],
                             [kind |-> "text", parent |-> 1, text |-> RowANGLE]>>,
                           <<RowVulkan>>)
    /\ result.graphicsBackend = "Metal"

\* C24: in 'should access chrome://gpu and extract GPU information' the
\* graphics backend of the probe's status map and the graphics backend of the
\* summary report are the same value, whatever elements were scraped, when
\* the test gets as far as the report; a key the map never set and the
\* report's 'Unknown' both say that there is none.
C24_SameBackendInMapAndReport ==
    (Scraped(GpuInformation) /\ ChromeExpect(GpuInformation, result)) =>
        LET inMap == result.graphicsBackend
            inReport == summaryReport(result).graphicsBackend
        IN inMap = inReport \/ (inMap = "" /\ inReport = "Unknown")

\* a row that reports a problem
ProblemRow(row) == Says(row, "Problem") \/ Says(row, "Disabled") \/ Says(row, "Blacklisted")

\* node m is node n or lies below it through child and shadow-root links
\* (Below), or through child links alone, in the tree of n
RECURSIVE InTreeOf(_, _)
InTreeOf(m, n) ==
    m = n \/ (m # 0 /\ doc.nodes[m].kind # "shadow" /\ InTreeOf(doc.nodes[m].parent, n))

\* the text nodes that report a problem
ProblemTexts ==
    {i \in DOMAIN doc.nodes : doc.nodes[i].kind = "text" /\ ProblemRow(doc.nodes[i].text)}

C26_AngleBackendNeedsAngleRow ==
    (Scraped(BackendComprehensive) /\ result.angle.backend) =>
        \E m \in ElementsBelow(0) :
            LET text == trim(textContent(doc.nodes, m)) IN
            Says(text, "ANGLE") /\ Says(text, "Hardware accelerated")

\* C27: in the line-filtering 'should extract graphics backend information
\* from chrome://gpu' the object the probe returns has the properties the
\* test asserts on, and the test fails when the scraped text is shorter than
\* 500 characters.
C27_AssertionsAreEvaluated ==
    (test = BackendInfo /\ pc = "done" /\ doc.loaded) =>
        /\ {"text", "vulkan", "angle", "graphics"} \subseteq BackendInfoReturn
        /\ textLength(result.fragments) < 500 => verdict = "fail"

(***************************************************************************)
(* The pages that signal completion through a flag                         *)
(***************************************************************************)
\* the script of the page of test t has run
ScriptRan(t) == test = t /\ pc \in {"waitFlag", "assert"}

\* C28: in both pages the data is written before the flag: with
\* gpuTestComplete set the results element no longer holds 'Loading...', and
\* with vulkanTestComplete set vulkanPerformance is defined and its drawCalls
\* is 10000; the driver that saw the flag reads that data.
C28_DataBeforeFlag ==
    /\ page.gpuTestComplete =>
          \A i \in DOMAIN page.results : page.results[i] # "Loading..."
    /\ page.vulkanTestComplete =>
          /\ page.vulkanPerformance # <<>>
          /\ page.vulkanPerformance[1].drawCalls = 10000
    /\ (test = Snapshot /\ pc = "assert") =>
          \A i \in DOMAIN result : result[i] # "Loading..."
    /\ (test = HighPerf /\ pc = "assert") => result.drawCalls = 10000

\* the driver of the snapshot page has seen the flag and read the results
C28_Witness ==
    /\ test = Snapshot /\ pc = "assert" /\ page.gpuTestComplete
    /\ Len(page.results) > 0

\* C29: the flag is set on every path of both scripts, also when no WebGL or
\* WebGL2 context can be created: the driver's wait never finds the script
\* over and the flag unset.
C29_FlagAlwaysSet == (test \in PageGLTests /\ pc = "waitFlag") => CompletionFlag

\* C30: the snapshot page reports 'WebGL 2.0 Supported' whenever the browser
\* can create a WebGL2 context.
C30_WebGL2SectionWhenAvailable ==
    (ScriptRan(Snapshot) /\ "webgl2" \in glSupport) =>
        \E i \in 1 .. Len(page.results) - 1 :
            page.results[i] = "2.0" /\ page.results[i + 1] = "Supported"

====
